---------------------------- MODULE Spec2Model ----------------------------
(***************************************************************************)
(* The persistent catalog store of src/coord/src/catalog/storage.rs as a   *)
(* state machine: the SQLite file (committed pages), the transaction in    *)
(* flight, and the position of the one process that uses the store.        *)
(*                                                                         *)
(* The embedded relational store is modelled by what the statements of     *)
(* the source do to it: a table is a definition (columns, keys) plus a set *)
(* of rows; the two header slots (application_id, user_version) are part   *)
(* of the same pages and are written and rolled back with them.            *)
(***************************************************************************)
EXTENDS Integers, Sequences, FiniteSets, TLC

VARIABLES
    disk,       \* the committed contents of <data-dir>/catalog
    tx,         \* the working copy of the open rusqlite transaction, or NoTx
    pc,         \* where the process is (see the actions)
    conn,       \* the Connection handle the process holds, or NoConn
    frame,      \* the locals of the running call (open, allocate_global_id)
    ret,        \* how the last call ended (NoRet while one is running)
    committed,  \* history: the migration indices whose transaction committed
    history,    \* history: the allocations that committed, in commit order
    calls,      \* history: how many repository and settings calls were made
    stash,      \* the calls <data-dir>/storage has taken, in order
    port_allocator, \* orchestrator-process: the ports alloc() has handed out
    supervisors,    \* per namespaced orchestrator: its map (and its mutex)
    tasks,          \* the supervisor tasks of the runtime, by JoinHandle
    threads         \* per namespaced orchestrator: the call that is running

\* The process orchestrator, which the catalog store never touches.
orchestrator == <<port_allocator, supervisors, tasks, threads>>

vars == <<disk, tx, pc, conn, frame, ret, committed, history, calls, stash, orchestrator>>

----------------------------------------------------------------------------
(* Bounds of the model.                                                    *)

\* i64 and u64 are modelled with Width bits instead of 64.
Width == 14
\* The number of allocate_global_id calls that commit in one behaviour.
MaxAllocs == 3
\* Repository and settings calls made on the handles of one store.
MaxCalls == 2

----------------------------------------------------------------------------
(* Program constants.                                                      *)

APPLICATION_ID == 408176604
\* A nonzero application_id of some other SQLite file.
FOREIGN_ID == APPLICATION_ID + 1
\* The seed of system_gid_alloc in MIGRATIONS[11].
SYSTEM_GID_SEED == 5044
\* The seed of gid_alloc in MIGRATIONS[0].
USER_GID_SEED == 1

U64_MOD == 2 ^ Width
I64_MAX == 2 ^ (Width - 1) - 1
\* `x as u64` of an i64, and `x as i64` of a u64.
AsU64(x) == x % U64_MOD
AsI64(u) == IF u > I64_MAX THEN u - U64_MOD ELSE u
\* Vec<u64>::with_capacity panics ("capacity overflow") above isize::MAX bytes.
VEC_MAX_LEN == 2 ^ (Width - 4) - 1

None == {}
Some(x) == {x}
NoTx == [none |-> TRUE]
NoConn == [none |-> TRUE]
NoFrame == [op |-> "none"]
NoRet == [op |-> "none", kind |-> "none", at |-> "none", i |-> 0 - 1]

----------------------------------------------------------------------------
(* The relational store.                                                   *)

\* A table definition: its columns, the columns that may hold NULL, the
\* key constraints (PRIMARY KEY and UNIQUE, each a set of columns), and
\* whether `id` is an integer primary key (an alias of the rowid).
TableDef(cols, nullable, keys, rowid) ==
    [cols |-> cols, nullable |-> nullable, keys |-> keys, rowid |-> rowid]

EmptyStore ==
    [application_id |-> 0, user_version |-> 0,
     schema |-> <<>>, rows |-> <<>>, indexes |-> {}]

Ok(s) == [ok |-> TRUE, db |-> s]
Err(s) == [ok |-> FALSE, db |-> s]

HasTable(s, t) == t \in DOMAIN s.schema

Drop(f, t) == [x \in (DOMAIN f) \ {t} |-> f[x]]

\* Variant: no key of a table is enforced.
Conflicts_Never(def, rs, row) == FALSE
\* SQLite: two rows conflict on a key when they agree on all its columns and
\* none of them is NULL (NULLs are distinct in UNIQUE constraints).
Conflicts(def, rs, row) ==
    \E k \in def.keys : \E r \in rs :
        \A c \in k : /\ r[c] = row[c]
                     /\ (c \in def.nullable => r[c] # None)

MaxId(rs) == IF rs = {} THEN 0 ELSE CHOOSE m \in {r.id : r \in rs} : \A r \in rs : r.id <= m

\* The rowid SQLite assigns to a row inserted without one: the largest + 1.
NextRowId(s, t) == MaxId(s.rows[t]) + 1

CreateTable(s, t, def) ==
    IF HasTable(s, t) THEN Err(s)
    ELSE Ok([s EXCEPT !.schema = (t :> def) @@ @, !.rows = (t :> {}) @@ @])

DropTable(s, t) ==
    IF ~HasTable(s, t) THEN Err(s)
    ELSE Ok([s EXCEPT !.schema = Drop(@, t), !.rows = Drop(@, t),
                      !.indexes = {i \in @ : i.table # t}])

RenameTable(s, old, new) ==
    IF ~HasTable(s, old) \/ HasTable(s, new) THEN Err(s)
    ELSE Ok([s EXCEPT !.schema = (new :> s.schema[old]) @@ Drop(@, old),
                      !.rows = (new :> s.rows[old]) @@ Drop(@, old),
                      !.indexes = {IF i.table = old THEN [i EXCEPT !.table = new] ELSE i : i \in @}])

\* Variant: the column is added with the text of Local as its default.
AddColumn_Defaulted(s, t, col) ==
    IF ~HasTable(s, t) \/ col \in {s.schema[t].cols[i] : i \in DOMAIN s.schema[t].cols} THEN Err(s)
    ELSE Ok([s EXCEPT !.schema[t].cols = Append(@, col),
                      !.schema[t].nullable = @ \cup {col},
                      !.rows[t] = {(col :> Some("\"Local\"")) @@ r : r \in @}])
\* ALTER TABLE t ADD COLUMN col: the rows already there read NULL in it.
AddColumn(s, t, col) ==
    IF ~HasTable(s, t) \/ col \in {s.schema[t].cols[i] : i \in DOMAIN s.schema[t].cols} THEN Err(s)
    ELSE Ok([s EXCEPT !.schema[t].cols = Append(@, col),
                      !.schema[t].nullable = @ \cup {col},
                      !.rows[t] = {(col :> None) @@ r : r \in @}])

CreateIndex(s, name, t) ==
    IF ~HasTable(s, t) \/ (\E i \in s.indexes : i.name = name) THEN Err(s)
    ELSE Ok([s EXCEPT !.indexes = @ \cup {[name |-> name, table |-> t]}])

\* INSERT of a full row (the id given).
Insert(s, t, row) ==
    IF ~HasTable(s, t) THEN Err(s)
    ELSE IF Conflicts(s.schema[t], s.rows[t], row) THEN Err(s)
    ELSE Ok([s EXCEPT !.rows[t] = @ \cup {row}])

\* INSERT that leaves the integer primary key to SQLite.
InsertAuto(s, t, row) ==
    IF ~HasTable(s, t) THEN Err(s)
    ELSE Insert(s, t, ("id" :> NextRowId(s, t)) @@ row)

\* A multi-row INSERT is one statement: all rows or none.
RECURSIVE InsertAll(_, _, _)
InsertAll(s, t, rows) ==
    IF rows = <<>> THEN Ok(s)
    ELSE LET r == IF "id" \in DOMAIN Head(rows) THEN Insert(s, t, Head(rows))
                  ELSE InsertAuto(s, t, Head(rows))
         IN  IF ~r.ok THEN r ELSE InsertAll(r.db, t, Tail(rows))

----------------------------------------------------------------------------
(* The timestamp bindings older releases kept in the catalog, and their    *)
(* forwarding to the stash at <data-dir>/storage.                          *)

System(n) == [tag |-> "System", id |-> n]
User(n) == [tag |-> "User", id |-> n]
\* impl FromSql for SqlVal<GlobalId>: serde_json::from_slice of the blob.
GlobalIdFromSql(b) ==
    CASE b = "{\"User\":2}" -> User(2)
      [] b = "{\"User\":10}" -> User(10)
      [] b = "{\"System\":1}" -> System(1)

\* How many iterations of the loop over source_ids the stash takes in all.
MaxForwards == 3

\* impl Display for GlobalId
GlobalIdToString(g) ==
    CASE g = User(2) -> "u2"
      [] g = User(10) -> "u10"
      [] g = System(1) -> "s1"

\* format!("timestamp-bindings-{source_id}")
CollectionName(source_id) ==
    CASE GlobalIdToString(source_id) = "u2" -> "timestamp-bindings-u2"
      [] GlobalIdToString(source_id) = "u10" -> "timestamp-bindings-u10"
      [] GlobalIdToString(source_id) = "s1" -> "timestamp-bindings-s1"

\* impl FromStr for PartitionId
ParsePartitionId(s) ==
    CASE s = "none" -> [tag |-> "None"]
      [] s = "0" -> [tag |-> "Kafka", id |-> 0]
      [] s = "1" -> [tag |-> "Kafka", id |-> 1]

\* The place of a stored text or blob among those of the model, in the
\* byte order SQLite compares them by.
ByteOrder(b) ==
    CASE b = "0" -> 1
      [] b = "1" -> 2
      [] b = "none" -> 3
      [] b = "{\"System\":1}" -> 4
      [] b = "{\"User\":10}" -> 5
      [] b = "{\"User\":2}" -> 6

\* ORDER BY pid, timestamp (rows that tie come in the order of the primary
\* key, which ends in offset).
OrderedBefore(a, b) ==
    \/ ByteOrder(a.pid) < ByteOrder(b.pid)
    \/ a.pid = b.pid /\ a.timestamp < b.timestamp
    \/ a.pid = b.pid /\ a.timestamp = b.timestamp /\ a.offset < b.offset

RECURSIVE OrderByPidTimestamp(_)
OrderByPidTimestamp(rs) ==
    IF rs = {} THEN <<>>
    ELSE LET first == CHOOSE r \in rs : \A o \in rs \ {r} : OrderedBefore(r, o)
         IN  <<first>> \o OrderByPidTimestamp(rs \ {first})

\* SELECT DISTINCT sid FROM timestamps, in the order of the primary key.
RECURSIVE InByteOrder(_)
InByteOrder(bs) ==
    IF bs = {} THEN <<>>
    ELSE LET first == CHOOSE b \in bs : \A o \in bs \ {b} : ByteOrder(b) < ByteOrder(o)
         IN  <<first>> \o InByteOrder(bs \ {first})

source_ids(s) ==
    LET sids == InByteOrder({r.sid : r \in s.rows["timestamps"]})
    IN  [n \in DOMAIN sids |-> GlobalIdFromSql(sids[n])]

\* SELECT pid, timestamp, offset FROM timestamps WHERE sid = ? ORDER BY ...
bindings(s, source_id) ==
    LET rows == OrderByPidTimestamp(
                    {r \in s.rows["timestamps"] : GlobalIdFromSql(r.sid) = source_id})
    IN  [n \in DOMAIN rows |->
            [partition |-> ParsePartitionId(rows[n].pid),
             timestamp |-> rows[n].timestamp, offset |-> rows[n].offset]]

\* The closure given to update_many: each binding becomes the difference of
\* its offset to the offset last reported for its partition (0 at first).
RECURSIVE Updates(_, _)
Updates(bs, last_reported_ts_bindings) ==
    IF bs = <<>> THEN <<>>
    ELSE LET b == Head(bs)
             prev_offset == IF b.partition \in DOMAIN last_reported_ts_bindings
                            THEN last_reported_ts_bindings[b.partition] ELSE 0
         IN  << [key |-> b.partition, time |-> b.timestamp, diff |-> b.offset - prev_offset] >>
                 \o Updates(Tail(bs), (b.partition :> b.offset) @@ last_reported_ts_bindings)

\* bindings.iter().map(|(_, ts, _)| *ts).max(), as an antichain.
seal_ts(bs) ==
    LET times == {bs[n].timestamp : n \in DOMAIN bs}
    IN  {t \in times : \A o \in times : o <= t}

\* One iteration of the loop over source_ids, the stash taking both calls:
\* update_many and seal are committed by the stash, outside the
\* transaction of the catalog.
ForwardSource(st, s, source_id) ==
    st \o << [op |-> "update_many", collection |-> CollectionName(source_id),
              updates |-> Updates(bindings(s, source_id), <<>>)],
             [op |-> "seal", collection |-> CollectionName(source_id),
              upper |-> seal_ts(bindings(s, source_id))] >>

\* What the closure of migration 10 does to the catalog before its DROP
\* TABLE: it prepares its two SELECTs, which only read.
ForwardTimestamps(s) ==
    IF ~HasTable(s, "timestamps") THEN Err(s) ELSE Ok(s)

\* One statement of a migration, executed on the working copy.
Exec(s, st) ==
    CASE st.op = "create_table" -> CreateTable(s, st.table, st.def)
      [] st.op = "drop_table"   -> DropTable(s, st.table)
      [] st.op = "rename_table" -> RenameTable(s, st.table, st.to)
      [] st.op = "add_column"   -> AddColumn(s, st.table, st.col)
      [] st.op = "create_index" -> CreateIndex(s, st.name, st.table)
      [] st.op = "insert"       -> LET r == InsertAll(s, st.table, st.rows)
                                   IN  IF r.ok THEN r ELSE Err(s)
      [] st.op = "forward"      -> ForwardTimestamps(s)

CreateTableStmt(t, def) == [op |-> "create_table", table |-> t, def |-> def]
DropTableStmt(t) == [op |-> "drop_table", table |-> t]
InsertStmt(t, rows) == [op |-> "insert", table |-> t, rows |-> rows]

----------------------------------------------------------------------------
(* MIGRATIONS: the statements of each migration, in the order of the       *)
(* source.  Migration i is Migration(i); the list is zero-based there.     *)

Migration0 ==
    << CreateTableStmt("gid_alloc", TableDef(<<"next_gid">>, {}, {}, FALSE)),
       CreateTableStmt("databases",
           TableDef(<<"id", "name">>, {}, {{"id"}, {"name"}}, TRUE)),
       CreateTableStmt("schemas",
           TableDef(<<"id", "database_id", "name">>, {"database_id"},
                    {{"id"}, {"database_id", "name"}}, TRUE)),
       CreateTableStmt("items",
           TableDef(<<"gid", "schema_id", "name", "definition">>, {"schema_id"},
                    {{"gid"}, {"schema_id", "name"}}, FALSE)),
       CreateTableStmt("timestamps",
           TableDef(<<"sid", "vid", "timestamp", "offset">>, {},
                    {{"sid", "vid", "timestamp"}}, FALSE)),
       InsertStmt("gid_alloc", << [next_gid |-> USER_GID_SEED] >>),
       InsertStmt("databases", << [id |-> 1, name |-> "materialize"] >>),
       InsertStmt("schemas",
           << [id |-> 1, database_id |-> None, name |-> "mz_catalog"],
              [id |-> 2, database_id |-> None, name |-> "pg_catalog"],
              [id |-> 3, database_id |-> Some(1), name |-> "public"] >>) >>

Migration1 ==
    << DropTableStmt("timestamps"),
       CreateTableStmt("timestamps",
           TableDef(<<"sid", "vid", "pcount", "pid", "timestamp", "offset">>, {},
                    {{"sid", "vid", "pid", "timestamp"}}, FALSE)) >>

Migration2 ==
    << CreateTableStmt("settings",
           TableDef(<<"name", "value">>, {"value"}, {{"name"}}, FALSE)) >>

Migration3 ==
    << CreateTableStmt("roles",
           TableDef(<<"id", "name">>, {}, {{"id"}, {"name"}}, TRUE)),
       InsertStmt("roles", << [id |-> 1, name |-> "materialize"] >>) >>

Migration4 ==
    << InsertStmt("schemas", << [database_id |-> None, name |-> "mz_internal"] >>) >>

Migration5 ==
    << DropTableStmt("timestamps"),
       CreateTableStmt("timestamps",
           TableDef(<<"sid", "pid", "timestamp", "offset">>, {},
                    {{"sid", "pid", "timestamp", "offset"}}, FALSE)) >>

Migration6 ==
    << InsertStmt("schemas", << [database_id |-> None, name |-> "information_schema"] >>) >>

Migration7 ==
    << [op |-> "create_index", name |-> "timestamps_sid_timestamp", table |-> "timestamps"] >>

Migration8 ==
    << CreateTableStmt("compute_instances",
           TableDef(<<"id", "name">>, {}, {{"id"}, {"name"}}, TRUE)),
       InsertStmt("compute_instances", << [id |-> 1, name |-> "default"] >>) >>

Migration9 ==
    << [op |-> "add_column", table |-> "compute_instances", col |-> "config"] >>

Migration10 ==
    << [op |-> "forward"],
       DropTableStmt("timestamps") >>

\* The seed of system_gid_mapping: of the 149 rows of the source, the first,
\* the two around the gap in the log ids, and the last.
SystemGidSeedRows ==
    << [schema_name |-> "pg_catalog", object_name |-> "bool", id |-> 1000, fingerprint |-> 0],
       [schema_name |-> "mz_catalog", object_name |-> "mz_message_counts_received_internal",
        id |-> 3028, fingerprint |-> 0],
       [schema_name |-> "mz_catalog", object_name |-> "mz_message_counts_sent_internal",
        id |-> 3036, fingerprint |-> 0],
       [schema_name |-> "pg_catalog", object_name |-> "pg_inherits", id |-> 5043, fingerprint |-> 0] >>

Migration11 ==
    << [op |-> "rename_table", table |-> "gid_alloc", to |-> "user_gid_alloc"],
       CreateTableStmt("system_gid_alloc", TableDef(<<"next_gid">>, {}, {}, FALSE)),
       InsertStmt("system_gid_alloc", << [next_gid |-> SYSTEM_GID_SEED] >>),
       CreateTableStmt("system_gid_mapping",
           TableDef(<<"schema_name", "object_name", "id", "fingerprint">>, {},
                    {{"schema_name", "object_name"}}, FALSE)),
       InsertStmt("system_gid_mapping", SystemGidSeedRows),
       CreateTableStmt("compute_introspection_source_indexes",
           TableDef(<<"compute_id", "name", "index_id">>, {},
                    {{"compute_id", "name"}}, FALSE)),
       [op |-> "create_index", name |-> "compute_introspection_source_indexes_ind",
        table |-> "compute_introspection_source_indexes"] >>

MIGRATIONS ==
    << Migration0, Migration1, Migration2, Migration3, Migration4, Migration5,
       Migration6, Migration7, Migration8, Migration9, Migration10, Migration11 >>

\* The index of the last migration: MIGRATIONS.len() - 1.
LastMigration == Len(MIGRATIONS) - 1
Migration(i) == MIGRATIONS[i + 1]

----------------------------------------------------------------------------
(* Transactions.  sqlite.transaction() starts from the committed pages;    *)
(* commit() makes the working copy the committed pages; a transaction      *)
(* dropped without commit (an early `?` return, a panic unwinding, a dead  *)
(* process) is rolled back.                                                *)

Begin(d) == d
CommitTx(d, t) == t
\* Variant: the writes of a dropped transaction stay.
Rollback_KeepsWrites(d, t) == t
Rollback(d, t) == d

\* The values Uuid::new_v4() may draw.
Uuids == {"uuid-a", "uuid-b"}
\* Whether the SQLite library the build links enforces REFERENCES clauses on
\* a new connection: rusqlite::Connection::open takes the library's
\* compile-time default (off in stock SQLite, on where the library is built
\* with SQLITE_DEFAULT_FOREIGN_KEYS=1) and the source never sets
\* PRAGMA foreign_keys.
ForeignKeyDefaults == BOOLEAN

\* Option<bool>: the experimental_mode argument of open.
Hints == {None, Some(TRUE), Some(FALSE)}

Init ==
    /\ disk \in {EmptyStore, [EmptyStore EXCEPT !.application_id = FOREIGN_ID]}
    /\ tx = NoTx
    /\ pc = "closed"
    /\ conn = NoConn
    /\ frame = NoFrame
    /\ ret = NoRet
    /\ committed = <<>>
    /\ history = <<>>
    /\ calls = 0
    /\ stash = <<>>
    /\ port_allocator = {}
    /\ supervisors = <<>>
    /\ tasks = <<>>
    /\ threads = <<>>

\* The migration a call is at, for the record of how it ended.
FrameIndex == IF "i" \in DOMAIN frame THEN frame.i ELSE 0 - 1

\* open returns Err(kind): the transaction in flight is dropped.
OpenFails(kind) ==
    /\ disk' = (IF tx = NoTx THEN disk ELSE Rollback(disk, tx))
    /\ tx' = NoTx
    /\ pc' = "closed"
    /\ conn' = NoConn
    /\ frame' = NoFrame
    /\ ret' = [op |-> "open", kind |-> kind, at |-> pc, i |-> FrameIndex]
    /\ UNCHANGED <<stash, orchestrator, committed, history, calls>>

\* Variant: the identity header is never checked.
IsCorrupt_Never(app_id) == FALSE
\* `else if app_id != APPLICATION_ID`, reached when app_id is not 0.
IsCorrupt(app_id) == app_id # 0 /\ app_id # APPLICATION_ID

\* Connection::open up to the branch on application_id.
OpenBegin(hint) ==
    /\ pc = "closed"
    /\ LET app_id == Begin(disk).application_id
           f == [op |-> "open", hint |-> hint, first |-> TRUE, i |-> 0, k |-> 1, n |-> 0,
                 experimental_mode |-> FALSE,
                 \* history: the header slots as this open found them, and the
                 \* migrations it has committed
                 app_id |-> app_id, version |-> Begin(disk).user_version, applied |-> <<>>]
       IN  IF app_id = 0
           THEN /\ tx' = Begin(disk)
                /\ pc' = "set_application_id"
                /\ frame' = f
                /\ ret' = NoRet
                /\ UNCHANGED <<disk, conn, stash, orchestrator, committed, history, calls>>
           ELSE IF IsCorrupt(app_id)
           THEN OpenFails("Corruption")
           ELSE \* tx.commit() of a transaction that wrote nothing
                /\ disk' = CommitTx(disk, Begin(disk))
                /\ pc' = "read_version"
                /\ frame' = [f EXCEPT !.first = FALSE]
                /\ ret' = NoRet
                /\ UNCHANGED <<tx, conn, stash, orchestrator, committed, history, calls>>

\* Variant: the PRAGMA runs on the connection, outside the transaction.
PragmaApplicationId_Autocommit(d, t) ==
    [disk |-> [d EXCEPT !.application_id = APPLICATION_ID],
     tx |-> [t EXCEPT !.application_id = APPLICATION_ID]]
\* tx.execute_batch("PRAGMA application_id = ..."): the header slot is
\* written in the transaction's working copy, the committed pages are not.
PragmaApplicationId(d, t) ==
    [disk |-> d, tx |-> [t EXCEPT !.application_id = APPLICATION_ID]]

\* PRAGMA application_id = APPLICATION_ID, inside the first transaction.
SetApplicationId ==
    /\ pc = "set_application_id"
    /\ disk' = PragmaApplicationId(disk, tx).disk
    /\ tx' = PragmaApplicationId(disk, tx).tx
    /\ pc' = "apply"
    /\ UNCHANGED <<conn, frame, ret, stash, orchestrator, committed, history, calls>>

\* Variant: the version header is never written.
AfterApply_NoVersion(first) == "commit"
\* Where open goes once the statements of migration i have run: the zeroth
\* migration of a fresh store is committed as it is, the others set
\* user_version first.
AfterApply(first) == IF first THEN "commit" ELSE "set_user_version"

\* migration.apply: the next statement of migration frame.i.
MigrationStep ==
    /\ pc = "apply"
    /\ LET st == Migration(frame.i)[frame.k]
           r == Exec(tx, st)
       IN  IF st.op = "forward" /\ r.ok /\ frame.n < Len(source_ids(tx))
           THEN \* `for source_id in source_ids`: the next source is forwarded
                /\ Len(stash) < 2 * MaxForwards
                /\ stash' = ForwardSource(stash, tx, source_ids(tx)[frame.n + 1])
                /\ frame' = [frame EXCEPT !.n = @ + 1]
                /\ UNCHANGED <<disk, tx, pc, conn, ret, orchestrator, committed, history, calls>>
           ELSE IF r.ok
           THEN /\ tx' = r.db
                /\ IF frame.k = Len(Migration(frame.i))
                   THEN pc' = AfterApply(frame.first) /\ frame' = frame
                   ELSE pc' = pc /\ frame' = [frame EXCEPT !.k = @ + 1]
                /\ UNCHANGED <<disk, conn, ret, stash, orchestrator, committed, history, calls>>
           ELSE OpenFails("StoreError")

\* Variant: the header counts migrations instead of naming the last index.
PragmaUserVersion_Count(t, i) == [t EXCEPT !.user_version = i + 1]
\* format!("PRAGMA user_version = {}", i)
PragmaUserVersion(t, i) == [t EXCEPT !.user_version = i]

\* PRAGMA user_version = i, inside the migration's transaction.
SetUserVersion ==
    /\ pc = "set_user_version"
    /\ tx' = PragmaUserVersion(tx, frame.i)
    /\ pc' = "commit"
    /\ UNCHANGED <<disk, conn, frame, ret, stash, orchestrator, committed, history, calls>>

\* Where the loop over MIGRATIONS stands before index i: at the head of
\* another iteration, or past its end.
LoopHead(i) == IF i <= LastMigration THEN "loop" ELSE "experimental_mode"

\* tx.commit() of the first transaction or of a migration's.
Commit ==
    /\ pc = "commit"
    /\ disk' = CommitTx(disk, tx)
    /\ tx' = NoTx
    /\ committed' = Append(committed, frame.i)
    /\ IF frame.first
       THEN /\ pc' = "read_version"
            /\ frame' = [frame EXCEPT !.first = FALSE, !.applied = Append(@, frame.i)]
       ELSE /\ pc' = LoopHead(frame.i + 1)
            /\ frame' = [frame EXCEPT !.i = @ + 1, !.k = 1, !.applied = Append(@, frame.i)]
    /\ UNCHANGED <<conn, ret, history, calls, stash, orchestrator>>

\* Variant: .skip(version + 2).
FirstUnapplied_SkipsOne(version) == version + 2
\* The first index the loop runs: .skip(version + 1).
FirstUnapplied(version) == version + 1

\* PRAGMA user_version, read outside any transaction.
ReadVersion ==
    /\ pc = "read_version"
    /\ frame' = [frame EXCEPT !.i = FirstUnapplied(disk.user_version), !.k = 1]
    /\ pc' = LoopHead(FirstUnapplied(disk.user_version))
    /\ UNCHANGED <<disk, tx, conn, ret, stash, orchestrator, committed, history, calls>>

\* The head of an iteration of the loop over MIGRATIONS: the migration's
\* transaction begins.
LoopNext ==
    /\ pc = "loop"
    /\ tx' = Begin(disk)
    /\ pc' = "apply"
    /\ UNCHANGED <<disk, conn, frame, ret, stash, orchestrator, committed, history, calls>>

\* A statement, a PRAGMA or a commit fails in SQLite (I/O error, disk full):
\* `?` returns the error from open.
StoreFailure ==
    /\ pc \in {"set_application_id", "apply", "set_user_version", "commit"}
    /\ OpenFails("StoreError")

----------------------------------------------------------------------------
(* Settings resolved by open.                                              *)

\* Variants: the flag is stored as set whatever it is; it is stored inverted.
BoolToSql_AlwaysOne(b) == "1"
BoolToSql_Inverted(b) == IF b THEN "0" ELSE "1"
\* rusqlite stores a bool parameter as the integer 1 or 0; the TEXT column
\* keeps it as the text '1' or '0'.
BoolToSql(b) == IF b THEN "1" ELSE "0"
\* Variants: every text counts as set; the test is inverted.
ParseSetting_AnyText(cs) == TRUE
ParseSetting_Inverted(cs) == cs = "0"
\* cs.parse::<usize>().unwrap() != 0
ParseSetting(cs) == CASE cs = "1" -> TRUE [] cs = "0" -> FALSE

\* SqlVal<Uuid>: the JSON text of the value, and back.
UuidToSql(u) == CASE u = "uuid-a" -> "\"uuid-a\"" [] u = "uuid-b" -> "\"uuid-b\""
UuidFromSql(b) == CASE b = "\"uuid-a\"" -> "uuid-a" [] b = "\"uuid-b\"" -> "uuid-b"

\* SELECT value FROM settings WHERE name = ?, .optional()
GetSetting(s, name) == {r.value : r \in {x \in s.rows["settings"] : x.name = name}}

\* set_or_get_experimental_mode: the store after its transaction committed
\* and its result.
SetOrGetExperimentalMode(s, hint) ==
    LET current_setting == GetSetting(s, "experimental_mode")
    IN  IF current_setting = None /\ hint # None
        THEN LET experimental_mode == CHOOSE b \in hint : TRUE
                 r == Insert(s, "settings",
                        [name |-> "experimental_mode", value |-> BoolToSql(experimental_mode)])
             IN  [db |-> r.db, ok |-> r.ok,
                  value |-> experimental_mode, kind |-> "StoreError"]
        ELSE IF current_setting # None /\ hint # None
        THEN LET experimental_mode == CHOOSE b \in hint : TRUE
                 cs == ParseSetting(CHOOSE v \in current_setting : TRUE)
             IN  IF cs /\ ~experimental_mode
                 THEN [db |-> s, ok |-> FALSE, value |-> FALSE, kind |-> "ExperimentalModeRequired"]
                 ELSE IF ~cs /\ experimental_mode
                 THEN [db |-> s, ok |-> FALSE, value |-> FALSE, kind |-> "ExperimentalModeUnavailable"]
                 ELSE [db |-> s, ok |-> TRUE, value |-> experimental_mode, kind |-> "ok"]
        ELSE IF current_setting # None
        THEN [db |-> s, ok |-> TRUE, kind |-> "ok",
              value |-> ParseSetting(CHOOSE v \in current_setting : TRUE)]
        ELSE [db |-> s, ok |-> TRUE, value |-> FALSE, kind |-> "ok"]

\* Variant: a new id is generated and stored on every call.
SetOrGetClusterId_AlwaysFresh(s, fresh) ==
    [db |-> [s EXCEPT !.rows["settings"] =
                {x \in @ : x.name # "cluster_id"}
                    \cup {[name |-> "cluster_id", value |-> UuidToSql(fresh)]}],
     ok |-> TRUE, value |-> fresh]

\* set_or_get_cluster_id, with the value Uuid::new_v4() would draw.
SetOrGetClusterId(s, fresh) ==
    LET current_setting == GetSetting(s, "cluster_id")
    IN  IF current_setting = None
        THEN LET r == Insert(s, "settings", [name |-> "cluster_id", value |-> UuidToSql(fresh)])
             IN  [db |-> r.db, ok |-> r.ok, value |-> fresh]
        ELSE [db |-> s, ok |-> TRUE, value |-> UuidFromSql(CHOOSE v \in current_setting : TRUE)]

\* The first field of the Connection that open builds.
ResolveExperimentalMode ==
    /\ pc = "experimental_mode"
    /\ LET r == SetOrGetExperimentalMode(Begin(disk), frame.hint)
       IN  IF r.ok
           THEN /\ disk' = CommitTx(disk, r.db)
                /\ pc' = "cluster_id"
                /\ frame' = [frame EXCEPT !.experimental_mode = r.value]
                /\ UNCHANGED <<tx, conn, ret, stash, orchestrator, committed, history, calls>>
           ELSE OpenFails(r.kind)

\* The second field, and the handle is returned.
ResolveClusterId ==
    /\ pc = "cluster_id"
    /\ \E fresh \in Uuids, foreign_keys \in ForeignKeyDefaults :
         LET r == SetOrGetClusterId(Begin(disk), fresh)
         IN  IF r.ok
             THEN /\ disk' = CommitTx(disk, r.db)
                  /\ pc' = "ready"
                  /\ conn' = [experimental_mode |-> frame.experimental_mode,
                              cluster_id |-> r.value, foreign_keys |-> foreign_keys]
                  /\ frame' = NoFrame
                  /\ ret' = [op |-> "open", kind |-> "ok", at |-> pc, i |-> FrameIndex]
                  /\ UNCHANGED <<tx, stash, orchestrator, committed, history, calls>>
             ELSE OpenFails("StoreError")

\* The Connection is dropped.
Close ==
    /\ pc = "ready"
    /\ pc' = "closed"
    /\ conn' = NoConn
    /\ UNCHANGED <<disk, tx, frame, ret, stash, orchestrator, committed, history, calls>>

\* The process dies (a panic, a kill, power loss): what was not committed is
\* rolled back when the file is next opened.
Crash ==
    /\ pc # "closed"
    /\ disk' = (IF tx = NoTx THEN disk ELSE Rollback(disk, tx))
    /\ tx' = NoTx
    /\ pc' = "closed"
    /\ conn' = NoConn
    /\ frame' = NoFrame
    /\ ret' = [op |-> frame.op, kind |-> "crash", at |-> pc, i |-> FrameIndex]
    /\ UNCHANGED <<stash, orchestrator, committed, history, calls>>

----------------------------------------------------------------------------
(* The id allocator.                                                       *)

\* format!("{id_type}_gid_alloc")
GidAllocTable(id_type) == IF id_type = "user" THEN "user_gid_alloc" ELSE "system_gid_alloc"

\* The amounts allocate_system_ids is called with: none, a batch of two, the
\* batch that ends exactly at i64::MAX, and the largest u64.  (A batch of
\* one is what allocate_user_id asks for, through the same code.)
SystemAmounts == {0, 2, I64_MAX - SYSTEM_GID_SEED, U64_MOD - 1}

\* SELECT next_gid FROM {id_type}_gid_alloc, as the i64 of the first row.
NextGid(s, id_type) == (CHOOSE r \in s.rows[GidAllocTable(id_type)] : TRUE).next_gid

\* Variant: no check for exhaustion.
Exhausted_Never(id) == FALSE
\* `if id == i64::MAX`
Exhausted(id) == id = I64_MAX

\* UPDATE {id_type}_gid_alloc SET next_gid = ?
SetNextGid(s, id_type, v) ==
    [s EXCEPT !.rows[GidAllocTable(id_type)] = {[r EXCEPT !.next_gid = v] : r \in @}]

\* (id + amount) of two u64 in a build without overflow checks.
WrappingAdd(id, amount) == (id + amount) % U64_MOD

\* (id..end).collect(): the elements of the half-open range, ascending.
RangeVec(id, end) == IF end > id THEN [n \in 1 .. (end - id) |-> id + n - 1] ELSE <<>>

\* A call on the handle returns Err(kind) or panics; its transaction is dropped.
AllocFails(kind) ==
    /\ disk' = (IF tx = NoTx THEN disk ELSE Rollback(disk, tx))
    /\ tx' = NoTx
    /\ pc' = "ready"
    /\ frame' = NoFrame
    /\ ret' = [op |-> "allocate", kind |-> kind, at |-> pc, i |-> FrameIndex]
    /\ UNCHANGED <<conn, stash, orchestrator, committed, history, calls>>

\* A panic in a call on the handle: the transaction is dropped while the
\* stack unwinds and the process goes down with the handle.
AllocPanics(kind) ==
    /\ disk' = (IF tx = NoTx THEN disk ELSE Rollback(disk, tx))
    /\ tx' = NoTx
    /\ pc' = "closed"
    /\ conn' = NoConn
    /\ frame' = NoFrame
    /\ ret' = [op |-> "allocate", kind |-> kind, at |-> pc, i |-> FrameIndex]
    /\ UNCHANGED <<stash, orchestrator, committed, history, calls>>

\* allocate_global_id up to the check for exhaustion.
AllocBegin(id_type, amount) ==
    /\ pc = "ready"
    /\ Len(history) < MaxAllocs
    /\ LET id == NextGid(Begin(disk), id_type)
       IN  IF Exhausted(id)
           THEN AllocFails("IdExhaustion")
           ELSE /\ tx' = Begin(disk)
                /\ pc' = "alloc_update"
                /\ frame' = [op |-> "allocate", id_type |-> id_type, amount |-> amount,
                             id |-> AsU64(id), end |-> AsU64(id)]
                /\ ret' = NoRet
                /\ UNCHANGED <<disk, conn, stash, orchestrator, committed, history, calls>>

allocate_user_id == AllocBegin("user", 1)
allocate_system_ids == \E amount \in SystemAmounts : AllocBegin("system", amount)

\* The UPDATE of the counter.  id + amount is a u64 addition: beyond u64::MAX
\* it panics in a build with overflow checks and wraps in one without.
AllocUpdate ==
    /\ pc = "alloc_update"
    /\ \E overflow_checks \in BOOLEAN :
         IF overflow_checks /\ frame.id + frame.amount >= U64_MOD
         THEN AllocPanics("panic")
         ELSE LET end == WrappingAdd(frame.id, frame.amount)
              IN  /\ tx' = SetNextGid(tx, frame.id_type, AsI64(end))
                  /\ pc' = "alloc_commit"
                  /\ frame' = [frame EXCEPT !.end = end]
                  /\ UNCHANGED <<disk, conn, ret, stash, orchestrator, committed, history, calls>>

\* tx.commit() of the allocation.
AllocCommit ==
    /\ pc = "alloc_commit"
    /\ disk' = CommitTx(disk, tx)
    /\ tx' = NoTx
    /\ pc' = "alloc_return"
    /\ history' = Append(history, [id_type |-> frame.id_type, amount |-> frame.amount,
                                   start |-> frame.id, returned |-> FALSE, ids |-> <<>>])
    /\ UNCHANGED <<conn, frame, ret, stash, orchestrator, committed, calls>>

\* Ok((id..id + amount).collect()), then the wrapper: into_element() for
\* allocate_user_id (it panics unless the vector holds one element).
AllocReturn ==
    /\ pc = "alloc_return"
    /\ IF (frame.end > frame.id /\ frame.end - frame.id > VEC_MAX_LEN)
          \/ (frame.id_type = "user" /\ frame.end # frame.id + 1)
       THEN AllocPanics("panic")
       ELSE LET ids == RangeVec(frame.id, frame.end)
            IN  /\ ret' = [op |-> "allocate", kind |-> "ok", at |-> pc, i |-> FrameIndex]
                /\ history' = [history EXCEPT ![Len(history)] =
                                  [@ EXCEPT !.returned = TRUE, !.ids = ids]]
                /\ pc' = "ready"
                /\ frame' = NoFrame
                /\ UNCHANGED <<disk, tx, conn, stash, orchestrator, committed, calls>>

\* The UPDATE or the commit fails in SQLite: `?` returns the error.
AllocStoreFailure ==
    /\ pc \in {"alloc_update", "alloc_commit"}
    /\ AllocFails("StoreError")

----------------------------------------------------------------------------
(* The repository: the Transaction facade and the Connection methods that  *)
(* run a transaction of their own.                                         *)

\* The REFERENCES clauses of MIGRATIONS[0]: the column of the child table
\* names the integer primary key of the parent table.
References ==
    { [table |-> "schemas", col |-> "database_id", parent |-> "databases"],
      [table |-> "items", col |-> "schema_id", parent |-> "schemas"] }

\* The rows of the child table that name a parent row that is not there
\* (NULL names none).
Dangling(s, ref) ==
    {r \in s.rows[ref.table] :
        /\ r[ref.col] # None
        /\ ~\E p \in s.rows[ref.parent] : r[ref.col] = Some(p.id)}

\* A statement on a connection: where foreign keys are enforced, a statement
\* that would leave a row naming a missing parent (the row it inserts, or
\* the children of the row it deletes) fails as a constraint violation and
\* writes nothing; where they are not, REFERENCES is not looked at.
Enforce(foreign_keys, s, r) ==
    IF r.ok /\ foreign_keys
       /\ \E ref \in References : ~(Dangling(r.db, ref) \subseteq Dangling(s, ref))
    THEN Err(s)
    ELSE r

\* Variant: the WHERE clause is lost.
DeleteRows_All(s, t, victims) == [s EXCEPT !.rows[t] = {}]
\* DELETE FROM t WHERE ..., the rows matched given.
DeleteRows(s, t, victims) == [s EXCEPT !.rows[t] = @ \ victims]

\* UPDATE t SET ... WHERE ..., the rows matched and their new versions
\* given: a key of the table held by two rows afterwards fails the statement.
UpdateRows(s, t, old, new) ==
    LET rest == s.rows[t] \ old
    IN  IF \E row \in new : Conflicts(s.schema[t], rest, row)
        THEN Err(s)
        ELSE Ok([s EXCEPT !.rows[t] = rest \cup new])

\* Variant: ON CONFLICT DO NOTHING, the row already there stays.
Upsert_KeepsExisting(s, t, key, row) ==
    Ok([s EXCEPT !.rows[t] =
          IF \E r \in @ : \A c \in key : r[c] = row[c] THEN @ ELSE @ \cup {row}])
\* Variant: the statement replaces the table's rows by the new row.
Upsert_ReplacesAll(s, t, key, row) == Ok([s EXCEPT !.rows[t] = {row}])
\* INSERT ... ON CONFLICT (key) DO UPDATE SET the other columns.
Upsert(s, t, key, row) ==
    Ok([s EXCEPT !.rows[t] =
          {r \in @ : \E c \in key : r[c] # row[c]} \cup {row}])

\* GlobalId, and what SqlVal stores for it: the JSON text of the value.
GlobalIdToSql(g) ==
    CASE g = User(2) -> "{\"User\":2}"
      [] g = User(10) -> "{\"User\":10}"
      [] g = System(1) -> "{\"System\":1}"

\* serde_json::to_string(config)
ConfigToSql(config) == CASE config = "Local" -> "\"Local\""

\* The arguments the calls are made with.
DatabaseNames == {"materialize", "d2"}
DatabaseIds == {1, 2}
SchemaNames == {"public"}
SchemaIds == {1, 3, 6}
RoleNames == {"materialize"}
ComputeNames == {"default", "c2"}
ComputeIds == {1, 2}
ComputeConfigs == {"Local"}
ItemIds == {User(2), User(10)}
ItemNames == {"v1", "v2"}
\* introspection_sources: none, one log with its index id, or two logs of
\* which the second comes with a user id
IntrospectionSources ==
    { <<>>,
      << [name |-> "mz_dataflow_operators", index_id |-> System(1)] >>,
      << [name |-> "mz_dataflow_operators", index_id |-> System(1)],
         [name |-> "mz_arrangement_sizes", index_id |-> User(2)] >> }
\* The mappings of set_introspection_source_index_gids.
IntrospectionMappings ==
    { << [compute_id |-> 1, name |-> "mz_dataflow_operators", index_id |-> System(1)] >>,
      << [compute_id |-> 2, name |-> "mz_dataflow_operators", index_id |-> System(1)] >>,
      << [compute_id |-> 1, name |-> "mz_dataflow_operators", index_id |-> System(1)],
         [compute_id |-> 1, name |-> "mz_arrangement_sizes", index_id |-> User(2)] >> }
\* The mappings of set_system_gids: a key of the seed with a new id, a new key
\* given twice (the second time with a fingerprint above i64::MAX), a new key
\* followed by a user id.
SystemGidMappings ==
    { << [schema_name |-> "pg_catalog", object_name |-> "bool", id |-> System(1), fingerprint |-> 1] >>,
      << [schema_name |-> "mz_catalog", object_name |-> "mz_new", id |-> System(1), fingerprint |-> 1],
         [schema_name |-> "mz_catalog", object_name |-> "mz_new", id |-> System(1), fingerprint |-> U64_MOD - 1] >>,
      << [schema_name |-> "mz_catalog", object_name |-> "mz_new", id |-> System(2), fingerprint |-> 1],
         [schema_name |-> "pg_catalog", object_name |-> "bool", id |-> User(2), fingerprint |-> 1] >> }
ContentVersions == {"v0.26.0"}
\* The versions the settings are exercised with: a release name, the empty
\* text, digits, digits after a plus sign, digits above u32::MAX.
StoredVersions == {"v0.26.0", "", "42", "+42", "999"}

\* How a call on the handle or on the facade ended.
Returned(op, kind) == [op |-> op, kind |-> kind, at |-> pc, i |-> 0 - 1]

\* conn.transaction(): the facade holds a new rusqlite transaction.
transaction ==
    /\ pc = "ready"
    /\ calls < MaxCalls
    /\ tx' = Begin(disk)
    /\ pc' = "in_tx"
    /\ frame' = [op |-> "transaction"]
    /\ ret' = NoRet
    /\ UNCHANGED <<disk, conn, stash, orchestrator, committed, history, calls>>

\* Transaction::commit
commit ==
    /\ pc = "in_tx"
    /\ disk' = CommitTx(disk, tx)
    /\ tx' = NoTx
    /\ pc' = "ready"
    /\ frame' = NoFrame
    /\ ret' = Returned("commit", "ok")
    /\ UNCHANGED <<conn, stash, orchestrator, committed, history, calls>>

\* The facade is dropped without commit.
DropTransaction ==
    /\ pc = "in_tx"
    /\ disk' = Rollback(disk, tx)
    /\ tx' = NoTx
    /\ pc' = "ready"
    /\ frame' = NoFrame
    /\ ret' = Returned("drop", "ok")
    /\ UNCHANGED <<conn, stash, orchestrator, committed, history, calls>>

\* A method of the facade returns: what its statements left in the working
\* copy (a failed statement leaves what the statements before it wrote) and
\* the result.
TxReturns(op, db, kind) ==
    /\ pc = "in_tx"
    /\ calls < MaxCalls
    /\ tx' = db
    /\ ret' = Returned(op, kind)
    /\ calls' = calls + 1
    /\ UNCHANGED <<disk, pc, conn, frame, stash, orchestrator, committed, history>>

\* A panic (assert!, panic!) in a call: the stack unwinds, the transaction
\* is dropped and the process goes down with the handle.
Panics(op) ==
    /\ calls < MaxCalls
    /\ disk' = (IF tx = NoTx THEN disk ELSE Rollback(disk, tx))
    /\ tx' = NoTx
    /\ pc' = "closed"
    /\ conn' = NoConn
    /\ frame' = NoFrame
    /\ ret' = Returned(op, "panic")
    /\ calls' = calls + 1
    /\ UNCHANGED <<stash, orchestrator, committed, history>>

\* A method of the facade returns Err(ErrorKind::..AlreadyExists(name)).
TxRejects(op, db, kind, name) ==
    /\ pc = "in_tx"
    /\ calls < MaxCalls
    /\ tx' = db
    /\ ret' = ("name" :> name) @@ Returned(op, kind)
    /\ calls' = calls + 1
    /\ UNCHANGED <<disk, pc, conn, frame, stash, orchestrator, committed, history>>

\* Variant: a constraint violation is passed on as any other error of the
\* store.
TxInsert_NotRecognised(op, r, exists, name) ==
    TxReturns(op, r.db, IF r.ok THEN "ok" ELSE "StoreError")
\* An INSERT of the facade: Ok, or a constraint violation
\* (is_constraint_violation) mapped to `exists` with the name.
TxInsert(op, r, exists, name) ==
    IF r.ok THEN TxReturns(op, r.db, "ok") ELSE TxRejects(op, r.db, exists, name)

\* A DELETE or UPDATE of the facade, n the rows it changed: assert!(n <= 1),
\* then Ok for one row and `unknown` for none.
TxChange(op, r, n, unknown) ==
    IF ~r.ok THEN TxReturns(op, r.db, "StoreError")
    ELSE IF n > 1 THEN Panics(op)
    ELSE TxReturns(op, r.db, IF n = 1 THEN "ok" ELSE unknown)

insert_database(database_name) ==
    /\ pc = "in_tx"
    /\ TxInsert("insert_database",
                 Enforce(conn.foreign_keys, tx,
                         InsertAuto(tx, "databases", [name |-> database_name])),
                 "DatabaseAlreadyExists", database_name)

insert_schema(database_id, schema_name) ==
    /\ pc = "in_tx"
    /\ TxInsert("insert_schema",
                 Enforce(conn.foreign_keys, tx,
                         InsertAuto(tx, "schemas",
                             [database_id |-> Some(database_id), name |-> schema_name])),
                 "SchemaAlreadyExists", schema_name)

insert_role(role_name) ==
    /\ pc = "in_tx"
    /\ TxInsert("insert_role",
                 Enforce(conn.foreign_keys, tx, InsertAuto(tx, "roles", [name |-> role_name])),
                 "RoleAlreadyExists", role_name)

\* The introspection rows of insert_compute_instance, one INSERT each: the
\* first that fails ends the call with its error, the rows before it stay.
RECURSIVE InsertIntrospection(_, _, _, _)
InsertIntrospection(foreign_keys, s, id, sources) ==
    IF sources = <<>> THEN [db |-> s, kind |-> "ok"]
    ELSE IF Head(sources).index_id.tag # "System" THEN [db |-> s, kind |-> "panic"]
    ELSE LET r == Enforce(foreign_keys, s,
                     Insert(s, "compute_introspection_source_indexes",
                         [compute_id |-> id, name |-> Head(sources).name,
                          index_id |-> AsI64(Head(sources).index_id.id)]))
         IN  IF ~r.ok THEN [db |-> s, kind |-> "StoreError"]
             ELSE InsertIntrospection(foreign_keys, r.db, id, Tail(sources))

insert_compute_instance(cluster_name, introspection_sources) ==
    /\ pc = "in_tx"
    /\ LET r == Enforce(conn.foreign_keys, tx,
                     InsertAuto(tx, "compute_instances",
                         [name |-> cluster_name, config |-> Some(ConfigToSql("Local"))]))
            id == MaxId(r.db.rows["compute_instances"])
            rest == InsertIntrospection(conn.foreign_keys, r.db, id, introspection_sources)
        IN  IF ~r.ok THEN TxRejects("insert_compute_instance", r.db,
                                      "ClusterAlreadyExists", cluster_name)
            ELSE IF rest.kind = "panic" THEN Panics("insert_compute_instance")
            ELSE TxReturns("insert_compute_instance", rest.db, rest.kind)

update_compute_instance_config(id, config) ==
    /\ pc = "in_tx"
    /\ LET old == {r \in tx.rows["compute_instances"] : r.id = id}
           new == {[r EXCEPT !.config = Some(ConfigToSql(config))] : r \in old}
           r == UpdateRows(tx, "compute_instances", old, new)
       IN  \* match execute { Ok(_) => Ok(()), Err(err) => Err(err.into()) }
           TxReturns("update_compute_instance_config", r.db,
                     IF r.ok THEN "ok" ELSE "StoreError")

insert_item(id, schema_id, item_name) ==
    /\ pc = "in_tx"
    /\ TxInsert("insert_item",
                 Enforce(conn.foreign_keys, tx,
                         Insert(tx, "items",
                             [gid |-> GlobalIdToSql(id), schema_id |-> Some(schema_id),
                              name |-> item_name, definition |-> "definition"])),
                 "ItemAlreadyExists", item_name)

remove_database(id) ==
    /\ pc = "in_tx"
    /\ LET victims == {r \in tx.rows["databases"] : r.id = id}
        IN  TxChange("remove_database",
                     Enforce(conn.foreign_keys, tx, Ok(DeleteRows(tx, "databases", victims))),
                     Cardinality(victims), "UnknownDatabase")

remove_schema(database_id, schema_id) ==
    /\ pc = "in_tx"
    /\ LET victims == {r \in tx.rows["schemas"] :
                           r.database_id = Some(database_id) /\ r.id = schema_id}
        IN  TxChange("remove_schema",
                     Enforce(conn.foreign_keys, tx, Ok(DeleteRows(tx, "schemas", victims))),
                     Cardinality(victims), "UnknownSchema")

remove_role(name) ==
    /\ pc = "in_tx"
    /\ LET victims == {r \in tx.rows["roles"] : r.name = name}
        IN  TxChange("remove_role",
                     Enforce(conn.foreign_keys, tx, Ok(DeleteRows(tx, "roles", victims))),
                     Cardinality(victims), "UnknownRole")

remove_compute_instance(name) ==
    /\ pc = "in_tx"
    /\ LET victims == {r \in tx.rows["compute_instances"] : r.name = name}
        IN  TxChange("remove_compute_instance",
                     Enforce(conn.foreign_keys, tx,
                             Ok(DeleteRows(tx, "compute_instances", victims))),
                     Cardinality(victims), "UnknownComputeInstance")

remove_item(id) ==
    /\ pc = "in_tx"
    /\ LET victims == {r \in tx.rows["items"] : r.gid = GlobalIdToSql(id)}
        IN  TxChange("remove_item",
                     Enforce(conn.foreign_keys, tx, Ok(DeleteRows(tx, "items", victims))),
                     Cardinality(victims), "UnknownItem")

update_item(id, item_name) ==
    /\ pc = "in_tx"
    /\ LET old == {r \in tx.rows["items"] : r.gid = GlobalIdToSql(id)}
            new == {[r EXCEPT !.name = item_name, !.definition = "definition"] : r \in old}
        IN  TxChange("update_item",
                     Enforce(conn.foreign_keys, tx, UpdateRows(tx, "items", old, new)),
                     Cardinality(old), "UnknownItem")

\* serde_json::from_str(&config)
ConfigFromSql(text) == CASE text = "\"Local\"" -> "Local"

\* The load operations of the Connection: the rows of one SELECT, in no
\* stated order, each converted as the closure converts it.
load_databases(s) == {[id |-> r.id, name |-> r.name] : r \in s.rows["databases"]}
\* LEFT JOIN databases: the third column is databases.id, NULL where no
\* database row has the schema's database_id.
load_schemas(s) ==
    {[id |-> r.id, name |-> r.name,
      database_id |-> {d.id : d \in {x \in s.rows["databases"] : r.database_id = Some(x.id)}}] :
        r \in s.rows["schemas"]}
load_roles(s) == {[id |-> r.id, name |-> r.name] : r \in s.rows["roles"]}
load_compute_instances(s) ==
    {[id |-> r.id, name |-> r.name,
      config |-> IF r.config = None THEN "Local"
                 ELSE ConfigFromSql(CHOOSE text \in r.config : TRUE)] :
        r \in s.rows["compute_instances"]}

\* Connection::load_system_gids: `id as u64`, `fingerprint as u64`.
load_system_gids(s) ==
    {[schema_name |-> r.schema_name, object_name |-> r.object_name,
      id |-> System(AsU64(r.id)), fingerprint |-> AsU64(r.fingerprint)] :
        r \in s.rows["system_gid_mapping"]}

\* Variant: the rows are ordered by the text of the gid.
ItemOrderKey_Text(b) ==
    CASE b = "{\"System\":1}" -> 0
      [] b = "{\"User\":10}" -> 1
      [] b = "{\"User\":2}" -> 2
\* ORDER BY json_extract(items.gid, '$.User'): the number under the key
\* User, NULL (which ascending order puts first, here -1) without that key.
ItemOrderKey(b) ==
    CASE b = "{\"User\":2}" -> 2
      [] b = "{\"User\":10}" -> 10
      [] b = "{\"System\":1}" -> 0 - 1

\* The sequences in which a set of rows can come back.
RECURSIVE Orderings(_)
Orderings(rows) ==
    IF rows = {} THEN {<<>>}
    ELSE UNION {{<<x>> \o rest : rest \in Orderings(rows \ {x})} : x \in rows}

\* Transaction::load_items: the items joined to their schema and to the
\* schema's database (inner joins: an item whose schema_id names no schema
\* row, or a schema row without a database row, yields no row), in
\* ascending order of the key; rows of one key come in any order.  The
\* result is the set of the sequences the call can return.
load_items(s) ==
    LET joined ==
          {[gid |-> i.gid, database |-> d.id, schema |-> p.id,
            item |-> i.name, definition |-> i.definition] :
              <<i, p, d>> \in {j \in s.rows["items"] \X s.rows["schemas"] \X s.rows["databases"] :
                                /\ j[1].schema_id = Some(j[2].id)
                                /\ j[2].database_id = Some(j[3].id)}}
        Row(r) == [id |-> GlobalIdFromSql(r.gid), database |-> r.database,
                   schema |-> r.schema, item |-> r.item, definition |-> r.definition]
    IN  {[n \in DOMAIN rows |-> Row(rows[n])] :
            rows \in {o \in Orderings(joined) :
                         \A n \in 1 .. (Len(o) - 1) :
                             ItemOrderKey(o[n].gid) <= ItemOrderKey(o[n + 1].gid)}}

\* A method of the Connection that runs its own transaction returns: the
\* transaction committed (on Ok) or was dropped (on Err).
ConnReturns(op, r, kind) ==
    /\ pc = "ready"
    /\ calls < MaxCalls
    /\ disk' = (IF r.ok THEN CommitTx(disk, r.db) ELSE Rollback(disk, r.db))
    /\ ret' = Returned(op, IF r.ok THEN "ok" ELSE kind)
    /\ calls' = calls + 1
    /\ UNCHANGED <<tx, pc, conn, frame, stash, orchestrator, committed, history>>

set_catalog_content_version(new_version) ==
    /\ pc = "ready"
    /\ ConnReturns("set_catalog_content_version",
                    Upsert(Begin(disk), "settings", {"name"},
                           [name |-> "catalog_content_version", value |-> new_version]),
                    "StoreError")

\* u32::MAX, at the scale of Width: a u32 has half the bits of a u64.
U32_MAX == 2 ^ (Width \div 2) - 1
\* The characters of a version text.
Chars(v) ==
    CASE v = "v0.26.0" -> <<"v", "0", ".", "2", "6", ".", "0">>
      [] v = "" -> <<>>
      [] v = "42" -> <<"4", "2">>
      [] v = "+42" -> <<"+", "4", "2">>
      [] v = "999" -> <<"9", "9", "9">>
Digits == <<"0", "1", "2", "3", "4", "5", "6", "7", "8", "9">>
IsDigit(c) == \E d \in DOMAIN Digits : Digits[d] = c
DigitValue(c) == (CHOOSE d \in DOMAIN Digits : Digits[d] = c) - 1
\* The number a sequence of digits denotes.
RECURSIVE Decimal(_)
Decimal(cs) ==
    IF cs = <<>> THEN 0
    ELSE 10 * Decimal(SubSeq(cs, 1, Len(cs) - 1)) + DigitValue(cs[Len(cs)])
\* Variant: a sign is not accepted.
ParsesAsU32_NoSign(v) ==
    /\ Chars(v) # <<>>
    /\ \A n \in DOMAIN Chars(v) : IsDigit(Chars(v)[n])
    /\ Decimal(Chars(v)) <= U32_MAX
\* v.parse::<u32>() is Ok: an optional plus sign, then at least one
\* character, all decimal digits, of a value that fits.
ParsesAsU32(v) ==
    LET cs == Chars(v)
        digits == IF cs # <<>> /\ cs[1] = "+" THEN Tail(cs) ELSE cs
    IN  /\ digits # <<>>
        /\ \A n \in DOMAIN digits : IsDigit(digits[n])
        /\ Decimal(digits) <= U32_MAX

\* The match of get_catalog_content_version on the stored setting.
ContentVersion(current_setting) ==
    IF current_setting = None THEN "new"
    ELSE LET v == CHOOSE x \in current_setting : TRUE
         IN  IF ParsesAsU32(v) THEN "pre-v0.8.4" ELSE v

\* A transaction that reads the setting and commits.
get_catalog_content_version ==
    /\ pc = "ready"
    /\ calls < MaxCalls
    /\ disk' = CommitTx(disk, Begin(disk))
    /\ ret' = ("value" :> ContentVersion(GetSetting(Begin(disk), "catalog_content_version")))
                 @@ Returned("get_catalog_content_version", "ok")
    /\ calls' = calls + 1
    /\ UNCHANGED <<tx, pc, conn, frame, stash, orchestrator, committed, history>>

\* The loop of set_system_gids over its mappings.
RECURSIVE UpsertSystemGids(_, _)
UpsertSystemGids(s, mappings) ==
    IF mappings = <<>> THEN [db |-> s, ok |-> TRUE, kind |-> "ok"]
    ELSE IF Head(mappings).id.tag # "System" THEN [db |-> s, ok |-> FALSE, kind |-> "panic"]
    ELSE UpsertSystemGids(
             Upsert(s, "system_gid_mapping", {"schema_name", "object_name"},
                    [schema_name |-> Head(mappings).schema_name,
                     object_name |-> Head(mappings).object_name,
                     id |-> AsI64(Head(mappings).id.id),
                     fingerprint |-> AsI64(Head(mappings).fingerprint)]).db,
             Tail(mappings))

set_system_gids(mappings) ==
    /\ pc = "ready"
    /\ LET r == UpsertSystemGids(Begin(disk), mappings)
        IN  IF r.kind = "panic" THEN Panics("set_system_gids")
            ELSE ConnReturns("set_system_gids", r, "StoreError")

\* The loop of set_introspection_source_index_gids over its mappings.
RECURSIVE InsertIntrospectionGids(_, _, _)
InsertIntrospectionGids(foreign_keys, s, mappings) ==
    IF mappings = <<>> THEN [db |-> s, ok |-> TRUE, kind |-> "ok"]
    ELSE IF Head(mappings).index_id.tag # "System" THEN [db |-> s, ok |-> FALSE, kind |-> "panic"]
    ELSE LET r == Enforce(foreign_keys, s,
                     Insert(s, "compute_introspection_source_indexes",
                         [compute_id |-> Head(mappings).compute_id,
                          name |-> Head(mappings).name,
                          index_id |-> AsI64(Head(mappings).index_id.id)]))
         IN  IF ~r.ok THEN [db |-> s, ok |-> FALSE, kind |-> "StoreError"]
             ELSE InsertIntrospectionGids(foreign_keys, r.db, Tail(mappings))

set_introspection_source_index_gids(mappings) ==
    /\ pc = "ready"
    /\ LET r == InsertIntrospectionGids(conn.foreign_keys, Begin(disk), mappings)
        IN  IF r.kind = "panic"
            THEN Panics("set_introspection_source_index_gids")
            ELSE ConnReturns("set_introspection_source_index_gids", r, "StoreError")

----------------------------------------------------------------------------
Next ==
    \/ \E hint \in Hints : OpenBegin(hint)
    \/ SetApplicationId
    \/ MigrationStep
    \/ SetUserVersion
    \/ Commit
    \/ ReadVersion
    \/ LoopNext
    \/ StoreFailure
    \/ ResolveExperimentalMode
    \/ ResolveClusterId
    \/ Close
    \/ Crash
    \/ allocate_user_id
    \/ allocate_system_ids
    \/ AllocUpdate
    \/ AllocCommit
    \/ AllocReturn
    \/ AllocStoreFailure

Spec == Init /\ [][Next]_vars

----------------------------------------------------------------------------
(* Reference results: what the migrations yield when each is applied once, *)
(* in order, without interruption.                                         *)

RECURSIVE RunStatements(_, _)
RunStatements(s, stmts) ==
    IF stmts = <<>> THEN s ELSE RunStatements(Exec(s, Head(stmts)).db, Tail(stmts))

\* The store after migrations 0..v, each applied once to a fresh store.
AfterMigration(prev, v) == [RunStatements(prev, Migration(v)) EXCEPT !.user_version = v]
Migrated0 == RunStatements([EmptyStore EXCEPT !.application_id = APPLICATION_ID], Migration(0))
Migrated1 == AfterMigration(Migrated0, 1)
Migrated2 == AfterMigration(Migrated1, 2)
Migrated3 == AfterMigration(Migrated2, 3)
Migrated4 == AfterMigration(Migrated3, 4)
Migrated5 == AfterMigration(Migrated4, 5)
Migrated6 == AfterMigration(Migrated5, 6)
Migrated7 == AfterMigration(Migrated6, 7)
Migrated8 == AfterMigration(Migrated7, 8)
Migrated9 == AfterMigration(Migrated8, 9)
Migrated10 == AfterMigration(Migrated9, 10)
Migrated11 == AfterMigration(Migrated10, 11)
Migrated(v) ==
    << Migrated0, Migrated1, Migrated2, Migrated3, Migrated4, Migrated5, Migrated6,
       Migrated7, Migrated8, Migrated9, Migrated10, Migrated11 >>[v + 1]

\* What migrations alone decide in a store: the tables, the indexes and the
\* schemas that belong to no database.
Effects(s) ==
    [schema |-> s.schema, indexes |-> s.indexes,
     ambient |-> IF HasTable(s, "schemas")
                 THEN {r \in s.rows["schemas"] : r.database_id = None} ELSE {}]

\* The store without the rows open's settings calls write.
WithoutSettings(s) ==
    IF HasTable(s, "settings") THEN [s EXCEPT !.rows["settings"] = {}] ELSE s

LastCommitted == IF committed = <<>> THEN 0 - 1 ELSE committed[Len(committed)]

StrictlyIncreasing(seq) == \A n \in 1 .. (Len(seq) - 1) : seq[n] < seq[n + 1]

\* <<a, a + 1, ..., b>>
Interval(a, b) == [n \in 1 .. (b - a + 1) |-> a + n - 1]

\* The loop over MIGRATIONS of the running open is over.
LoopDone == pc \in {"experimental_mode", "cluster_id"}

Ours == disk.application_id \in {0, APPLICATION_ID}

----------------------------------------------------------------------------
\* The settings in use: a store that open has brought to the last migration
\* (its settings not yet written) is opened with any hint, written to
\* through the handle and a transaction, closed or killed, and opened again.
SettingsInit ==
    /\ disk = Migrated11
    /\ tx = NoTx
    /\ pc = "closed"
    /\ conn = NoConn
    /\ frame = NoFrame
    /\ ret = NoRet
    /\ committed = Interval(0, LastMigration)
    /\ history = <<>>
    /\ calls = 0
    /\ stash = <<>>
    /\ port_allocator = {}
    /\ supervisors = <<>>
    /\ tasks = <<>>
    /\ threads = <<>>

SettingsNext ==
    \/ \E hint \in Hints : OpenBegin(hint)
    \/ ReadVersion
    \/ ResolveExperimentalMode
    \/ ResolveClusterId
    \/ Close
    \/ Crash
    \/ transaction
    \/ commit
    \/ DropTransaction
    \/ \E database_name \in DatabaseNames : insert_database(database_name)
    \/ \E id \in DatabaseIds : remove_database(id)
    \/ \E new_version \in StoredVersions : set_catalog_content_version(new_version)
    \/ get_catalog_content_version
    \/ \E mappings \in SystemGidMappings : set_system_gids(mappings)

SettingsSpec == SettingsInit /\ [][SettingsNext]_vars

\* The same store once an open with no hint has returned: its cluster_id is
\* written, its experimental_mode is not.
Opened11 == SetOrGetClusterId(Migrated11, "uuid-a").db

\* The repository in use: a store that has been opened before is opened
\* with no hint, used through the repository, closed or killed, and opened
\* again.
RepositoryInit ==
    /\ disk = Opened11
    /\ tx = NoTx
    /\ pc = "closed"
    /\ conn = NoConn
    /\ frame = NoFrame
    /\ ret = NoRet
    /\ committed = Interval(0, LastMigration)
    /\ history = <<>>
    /\ calls = 0
    /\ stash = <<>>
    /\ port_allocator = {}
    /\ supervisors = <<>>
    /\ tasks = <<>>
    /\ threads = <<>>

RepositoryNext ==
    \/ OpenBegin(None)
    \/ ReadVersion
    \/ ResolveExperimentalMode
    \/ ResolveClusterId
    \/ Close
    \/ Crash
    \/ transaction
    \/ commit
    \/ DropTransaction
    \/ \E database_name \in DatabaseNames : insert_database(database_name)
    \/ \E database_id \in DatabaseIds, schema_name \in SchemaNames :
          insert_schema(database_id, schema_name)
    \/ \E role_name \in RoleNames : insert_role(role_name)
    \/ \E cluster_name \in ComputeNames, introspection_sources \in IntrospectionSources :
          insert_compute_instance(cluster_name, introspection_sources)
    \/ \E id \in ComputeIds, config \in ComputeConfigs : update_compute_instance_config(id, config)
    \/ \E id \in ItemIds, schema_id \in SchemaIds, item_name \in ItemNames :
          insert_item(id, schema_id, item_name)
    \/ \E id \in DatabaseIds : remove_database(id)
    \/ \E database_id \in DatabaseIds, schema_id \in SchemaIds : remove_schema(database_id, schema_id)
    \/ \E name \in RoleNames : remove_role(name)
    \/ \E name \in ComputeNames : remove_compute_instance(name)
    \/ \E id \in ItemIds : remove_item(id)
    \/ \E id \in ItemIds, item_name \in ItemNames : update_item(id, item_name)
    \/ \E new_version \in ContentVersions : set_catalog_content_version(new_version)
    \/ \E mappings \in SystemGidMappings : set_system_gids(mappings)
    \/ \E mappings \in IntrospectionMappings : set_introspection_source_index_gids(mappings)

RepositorySpec == RepositoryInit /\ [][RepositoryNext]_vars

----------------------------------------------------------------------------
\* The rows of timestamps a release before v0.26.0 left behind: none, one
\* source with two bindings of a partition, two sources.
TimestampBindings ==
    { {},
      { [sid |-> "{\"User\":2}", pid |-> "0", timestamp |-> 1, offset |-> 5],
        [sid |-> "{\"User\":2}", pid |-> "0", timestamp |-> 2, offset |-> 8] },
      { [sid |-> "{\"User\":2}", pid |-> "none", timestamp |-> 3, offset |-> 4],
        [sid |-> "{\"User\":10}", pid |-> "1", timestamp |-> 1, offset |-> 2] } }

\* A store as the release whose MIGRATIONS ended at index 9 left it: opened
\* once with the hint (its settings written), the bindings in timestamps.
Released9(hint, bs) ==
    LET opened == SetOrGetClusterId(SetOrGetExperimentalMode(Migrated9, hint).db, "uuid-a").db
    IN  [opened EXCEPT !.rows["timestamps"] = bs]

\* The upgrade: a store of the older release is opened by this one, with
\* any hint; the open fails, the process is killed, the store is opened
\* again.
UpgradeInit ==
    /\ disk \in {Released9(hint, bs) : hint \in Hints, bs \in TimestampBindings}
    /\ tx = NoTx
    /\ pc = "closed"
    /\ conn = NoConn
    /\ frame = NoFrame
    /\ ret = NoRet
    /\ committed = Interval(0, 9)
    /\ history = <<>>
    /\ calls = 0
    /\ stash = <<>>
    /\ port_allocator = {}
    /\ supervisors = <<>>
    /\ tasks = <<>>
    /\ threads = <<>>

UpgradeNext ==
    \/ \E hint \in Hints : OpenBegin(hint)
    \/ ReadVersion
    \/ LoopNext
    \/ MigrationStep
    \/ SetUserVersion
    \/ Commit
    \/ StoreFailure
    \/ ResolveExperimentalMode
    \/ ResolveClusterId
    \/ Close
    \/ Crash

UpgradeSpec == UpgradeInit /\ [][UpgradeNext]_vars

----------------------------------------------------------------------------
(* SqlVal: a value is stored as the blob of its JSON text and read back by *)
(* parsing the blob.  The text is a sequence of tokens: punctuation, a     *)
(* quoted name, decimal digits.                                            *)

Transient(n) == [tag |-> "Transient", id |-> n]
Explain == [tag |-> "Explain"]
Quoted(name) == <<"\"", name, "\"">>

\* The decimal digits of a u64, as serde_json (itoa) writes them.
RECURSIVE ToDecimal(_)
ToDecimal(n) ==
    IF n < 10 THEN <<Digits[n + 1]>>
    ELSE ToDecimal(n \div 10) \o <<Digits[(n % 10) + 1]>>
\* Variant: the number is written as the i64 of the same bits.
WriteU64_Signed(n) == IF AsI64(n) < 0 THEN <<"-">> \o ToDecimal(0 - AsI64(n)) ELSE ToDecimal(n)
\* A u64 field in JSON.
WriteU64(n) == ToDecimal(n)
\* A JSON number read as u64: digits, no leading zero, no sign, in range.
ReadU64(cs) ==
    IF /\ cs # <<>>
       /\ \A n \in DOMAIN cs : IsDigit(cs[n])
       /\ (Len(cs) > 1 => cs[1] # "0")
       /\ Decimal(cs) < U64_MOD
    THEN Some(Decimal(cs))
    ELSE None

\* The ids the codec is exercised with.
CodecIds == {0, 1, 2, 9, 10, 42, 100, 999, SYSTEM_GID_SEED, I64_MAX, I64_MAX + 1, U64_MOD - 1}
\* The values stored through SqlVal: GlobalIds and the cluster id.
CodecValues ==
    {System(n) : n \in CodecIds} \cup {User(n) : n \in CodecIds}
        \cup {Transient(n) : n \in CodecIds} \cup {Explain}
        \cup {[uuid |-> u] : u \in Uuids}

\* serde_json::to_vec: a newtype variant is {"Variant":value}, a unit
\* variant its quoted name, a Uuid its quoted hyphenated form.
JsonToVec(v) ==
    IF "uuid" \in DOMAIN v THEN Quoted(v.uuid)
    ELSE IF v.tag = "Explain" THEN Quoted("Explain")
    ELSE <<"{">> \o Quoted(v.tag) \o <<":">> \o WriteU64(v.id) \o <<"}">>

\* serde_json::from_slice::<GlobalId> / ::<Uuid>: None where it is an Err.
JsonFromSlice(type, bytes) ==
    IF type = "Uuid"
    THEN IF Len(bytes) = 3 /\ bytes[1] = "\"" /\ bytes[3] = "\"" /\ bytes[2] \in Uuids
         THEN Some([uuid |-> bytes[2]]) ELSE None
    ELSE IF bytes = Quoted("Explain") THEN Some(Explain)
    ELSE IF /\ Len(bytes) >= 7
            /\ SubSeq(bytes, 1, 2) = <<"{", "\"">>
            /\ bytes[3] \in {"System", "User", "Transient"}
            /\ SubSeq(bytes, 4, 5) = <<"\"", ":">>
            /\ bytes[Len(bytes)] = "}"
            /\ ReadU64(SubSeq(bytes, 6, Len(bytes) - 1)) # None
         THEN Some([tag |-> bytes[3],
                    id |-> CHOOSE n \in ReadU64(SubSeq(bytes, 6, Len(bytes) - 1)) : TRUE])
    ELSE None

\* The Rust type of a value.
TypeOf(v) == IF "uuid" \in DOMAIN v THEN "Uuid" ELSE "GlobalId"

\* A value is about to be bound to a statement.
CodecInit ==
    /\ disk = EmptyStore
    /\ tx = NoTx
    /\ pc = "value"
    /\ conn = NoConn
    /\ frame \in {[op |-> "SqlVal", value |-> v] : v \in CodecValues}
    /\ ret = NoRet
    /\ committed = <<>>
    /\ history = <<>>
    /\ calls = 0
    /\ stash = <<>>
    /\ port_allocator = {}
    /\ supervisors = <<>>
    /\ tasks = <<>>
    /\ threads = <<>>

\* impl ToSql for SqlVal<T>
to_sql ==
    /\ pc = "value"
    /\ pc' = "stored"
    /\ frame' = [op |-> "SqlVal", value |-> frame.value,
                 stored |-> [type |-> "Blob", bytes |-> JsonToVec(frame.value)]]
    /\ UNCHANGED <<disk, tx, conn, ret, stash, orchestrator, committed, history, calls>>

\* impl FromSql for SqlVal<T>, on the column as SQLite hands it back.
column_result ==
    /\ pc = "stored"
    /\ pc' = "read"
    /\ LET r == IF frame.stored.type # "Blob" THEN None
                ELSE JsonFromSlice(TypeOf(frame.value), frame.stored.bytes)
       IN  ret' = IF r = None
                  THEN Returned("column_result", "FromSqlError")
                  ELSE ("value" :> (CHOOSE v \in r : TRUE)) @@ Returned("column_result", "ok")
    /\ UNCHANGED <<disk, tx, conn, frame, stash, orchestrator, committed, history, calls>>

CodecNext == to_sql \/ column_result

CodecSpec == CodecInit /\ [][CodecNext]_vars

----------------------------------------------------------------------------
(* src/orchestrator-process/src/lib.rs: the namespaced process             *)
(* orchestrators of one ProcessOrchestrator.  They share its port          *)
(* allocator; each has its own supervisors map behind its own mutex.  A    *)
(* call runs on a thread of its own, one call per namespaced orchestrator  *)
(* at a time (&mut self); the supervisor tasks run on the runtime.         *)

\* port_range holds this many ports.
MaxPorts == 3
Ports == 1 .. MaxPorts

Namespaces == {"n1", "n2"}
ServiceIds == {"a", "b"}
\* ServiceConfig: the names of ports_in and processes_in.
ServiceConfigs ==
    [ports_in : {<<"http">>, <<"http", "ctl">>}, processes_in : {1, 2}]

Range(f) == {f[x] : x \in DOMAIN f}

Idle(result) == [at |-> "idle", ret |-> result]

\* catalog: the store is not part of the orchestrator.
NoCatalog ==
    /\ disk = EmptyStore
    /\ tx = NoTx
    /\ pc = "closed"
    /\ conn = NoConn
    /\ frame = NoFrame
    /\ ret = NoRet
    /\ committed = <<>>
    /\ history = <<>>
    /\ calls = 0
    /\ stash = <<>>

catalog == <<disk, tx, pc, conn, frame, ret, committed, history, calls, stash>>

\* ProcessOrchestrator::new, then namespace() once per namespace.
OrchestratorInit ==
    /\ NoCatalog
    /\ port_allocator = {}
    /\ supervisors = [ns \in Namespaces |-> [poisoned |-> FALSE, map |-> <<>>]]
    /\ tasks = <<>>
    /\ threads = [ns \in Namespaces |-> Idle("none")]

\* A panic of the thread that holds the lock of supervisors poisons it.
PanicsHoldingLock(ns) ==
    /\ supervisors' = [supervisors EXCEPT ![ns].poisoned = TRUE]
    /\ threads' = [threads EXCEPT ![ns] = Idle("panic")]
    /\ UNCHANGED <<port_allocator, tasks, catalog>>

\* ensure_service up to the loops: the lock is taken, the id is looked up.
ensure_service(ns, id, config) ==
    /\ threads[ns].at = "idle"
    /\ IF supervisors[ns].poisoned \/ id \in DOMAIN supervisors[ns].map
       THEN \* .expect("lock poisoned"), unimplemented!(...)
            PanicsHoldingLock(ns)
       ELSE /\ threads' = [threads EXCEPT ![ns] =
                   [at |-> "alloc", ret |-> "none", id |-> id,
                    ports_in |-> config.ports_in, processes_in |-> config.processes_in,
                    ports |-> <<>>, processes |-> <<>>, handles |-> <<>>]]
            /\ UNCHANGED <<port_allocator, supervisors, tasks, catalog>>

\* .ok_or_else(|| anyhow!("port exhaustion"))?: the locals are dropped.
\* `ports` holds plain numbers; a dropped JoinHandle detaches its task.
Exhaustion(ns) ==
    /\ threads' = [threads EXCEPT ![ns] = Idle("port exhaustion")]
    /\ UNCHANGED <<port_allocator, supervisors, tasks, catalog>>

\* `for port in &ports_in`: port_allocator.alloc() for the next name.
alloc(ns) ==
    /\ threads[ns].at = "alloc"
    /\ LET t == threads[ns]
           name == t.ports_in[Cardinality(DOMAIN t.ports) + 1]
       IN  IF port_allocator = Ports
           THEN Exhaustion(ns)
           ELSE \E p \in Ports \ port_allocator :
                  /\ port_allocator' = port_allocator \cup {p}
                  /\ threads' = [threads EXCEPT ![ns].ports = (name :> p) @@ @,
                          ![ns].at = IF Cardinality(DOMAIN t.ports) + 1 = Len(t.ports_in)
                                    THEN "spawn" ELSE "alloc"]
                  /\ UNCHANGED <<supervisors, tasks, catalog>>

\* processes.push(ports.clone()); handles.push(mz_ore::task::spawn(...)):
\* the task is handed to the runtime, which has not polled it yet.
spawn(ns) ==
    /\ threads[ns].at = "spawn"
    /\ LET t == threads[ns]
       IN  /\ tasks' = (t.ports :> "spawned") @@ tasks
           /\ threads' = [threads EXCEPT ![ns].processes = Append(@, t.ports),
                   ![ns].handles = Append(@, t.ports),
                   ![ns].ports = <<>>,
                   ![ns].at = IF Len(t.processes) + 1 = t.processes_in
                             THEN "insert" ELSE "alloc"]
           /\ UNCHANGED <<port_allocator, supervisors, catalog>>

\* supervisors.insert(id.into(), handles); Ok(Box::new(ProcessService ...))
insert(ns) ==
    /\ threads[ns].at = "insert"
    /\ supervisors' = [supervisors EXCEPT ![ns].map =
            (threads[ns].id :> threads[ns].handles) @@ @]
    /\ threads' = [threads EXCEPT ![ns] = Idle("ok")]
    /\ UNCHANGED <<port_allocator, tasks, catalog>>

\* handle.abort(): a task that is still in the runtime is marked; one that
\* was never polled is cancelled as it is.
Abort(state) ==
    CASE state = "spawned" -> "cancelled"
      [] state = "running" -> "aborted"
      [] OTHER -> state

\* drop_service: the handles are taken out of the map and aborted.
drop_service(ns, id) ==
    /\ threads[ns].at = "idle"
    /\ IF supervisors[ns].poisoned
       THEN PanicsHoldingLock(ns)
       ELSE LET handles == IF id \in DOMAIN supervisors[ns].map
                           THEN Range(supervisors[ns].map[id]) ELSE {}
            IN  /\ supervisors' = [supervisors EXCEPT ![ns].map =
                        [i \in (DOMAIN @) \ {id} |-> @[i]]]
                /\ tasks' = [h \in DOMAIN tasks |->
                                IF h \in handles THEN Abort(tasks[h]) ELSE tasks[h]]
                /\ threads' = [threads EXCEPT ![ns] = Idle("ok")]
                /\ UNCHANGED <<port_allocator, catalog>>

\* The runtime polls a task for the first time: the body of the async
\* block starts, defer! arms its guard, the child is launched.
Poll(h) ==
    /\ h \in DOMAIN tasks
    /\ tasks[h] = "spawned"
    /\ tasks' = [tasks EXCEPT ![h] = "running"]
    /\ UNCHANGED <<port_allocator, supervisors, threads, catalog>>

\* The runtime drops the future of an aborted task.  The guard of defer!
\* frees the ports if the body had started; a future that was never
\* polled has no guard.
DropFuture(h) ==
    /\ h \in DOMAIN tasks
    /\ tasks[h] \in {"aborted", "cancelled"}
    /\ port_allocator' = IF tasks[h] = "aborted"
                         THEN port_allocator \ Range(h) ELSE port_allocator
    /\ tasks' = [x \in (DOMAIN tasks) \ {h} |-> tasks[x]]
    /\ UNCHANGED <<supervisors, threads, catalog>>

OrchestratorNext ==
    \/ \E ns \in Namespaces, id \in ServiceIds, config \in ServiceConfigs :
          ensure_service(ns, id, config)
    \/ \E ns \in Namespaces : alloc(ns)
    \/ \E ns \in Namespaces : spawn(ns)
    \/ \E ns \in Namespaces : insert(ns)
    \/ \E ns \in Namespaces, id \in ServiceIds : drop_service(ns, id)
    \/ \E h \in DOMAIN tasks : Poll(h)
    \/ \E h \in DOMAIN tasks : DropFuture(h)

OrchestratorSpec == OrchestratorInit /\ [][OrchestratorNext]_vars

----------------------------------------------------------------------------
(* C1..C6: open and the migrations.                                        *)

\* C1 (as stated): over the life of a store the committed migration indices
\* are strictly increasing (in order, each at most once), and an open that
\* found schema version v has committed exactly v+1..11 when its loop ends.
C1_AppliesExactlyAboveVersion ==
    /\ StrictlyIncreasing(committed)
    /\ LoopDone => frame.applied = Interval(frame.version + 1, LastMigration)

\* C1 (amended): the same, except that the open of a fresh store (identity
\* header zero, where the version header reads 0) commits index 0 as well:
\* it commits 0..11.
C1_AppliesInOrderOnce ==
    /\ StrictlyIncreasing(committed)
    /\ LoopDone =>
         frame.applied = Interval(IF frame.app_id = 0 THEN 0 ELSE frame.version + 1,
                                  LastMigration)

\* An open that resumed a store left at version 4 has finished its loop.
C1_Witness ==
    /\ LoopDone
    /\ frame.app_id = APPLICATION_ID
    /\ frame.version = 4
    /\ frame.applied = Interval(5, 11)

\* C2 (as stated): after an open ended (returned or died), the version
\* header of the store is the index of the last committed migration.
C2_VersionIsLastCommitted ==
    (Ours /\ pc = "closed" /\ ret.op = "open") => disk.user_version = LastCommitted

\* C2 (amended): in every state of a store whose identity header is the
\* magic, the committed version header is the index of the last committed
\* migration and the visible effects are those of migrations 0..version; a
\* store whose identity header is still zero reads version 0 with no
\* migration committed and nothing visible.
C2_VersionMatchesCommitted ==
    /\ disk.application_id = APPLICATION_ID =>
         /\ disk.user_version = LastCommitted
         /\ Effects(disk) = Effects(Migrated(disk.user_version))
    /\ disk.application_id = 0 =>
         /\ disk.user_version = 0
         /\ committed = <<>>
         /\ Effects(disk) = Effects(EmptyStore)

\* An open died inside migration 7: the store is at rest at version 6.
C2_Witness ==
    /\ pc = "closed"
    /\ ret.kind = "crash"
    /\ ret.at = "set_user_version"
    /\ ret.i = 7
    /\ disk.user_version = 6

\* C3: a step in which migration i >= 1 fails (an error from a statement,
\* the PRAGMA or the commit, or the death of the process) writes nothing:
\* the committed store is the one before the migration's transaction, at
\* version i-1 with the effects of 0..i-1, and no handle is returned.
C3_FailedMigrationRollsBack ==
    [][ (/\ pc \in {"apply", "set_user_version", "commit"}
         /\ ~frame.first
         /\ frame.i >= 1
         /\ pc' = "closed")
        => /\ disk' = disk
           /\ tx' = NoTx
           /\ conn' = NoConn
           /\ ret'.kind \in {"StoreError", "crash"}
           /\ disk'.user_version = frame.i - 1
           /\ Effects(disk') = Effects(Migrated(frame.i - 1)) ]_vars

\* Migration 11 failed after some of its statements had run.
C3_Witness ==
    /\ pc = "closed"
    /\ ret.kind = "StoreError"
    /\ ret.at = "apply"
    /\ ret.i = 11
    /\ disk.user_version = 10
    /\ ~HasTable(disk, "system_gid_alloc")

\* C4: every step taken on a store whose identity header is neither zero
\* nor the magic leaves the store as it is, returns Corruption and no
\* handle; no migration is committed.
C4_ForeignStoreUntouched ==
    [][ ~Ours
        => /\ disk' = disk
           /\ pc' = "closed"
           /\ conn' = NoConn
           /\ ret'.kind = "Corruption"
           /\ committed' = committed ]_vars

\* An open of such a store has returned Corruption.
C4_Witness ==
    /\ disk.application_id = FOREIGN_ID
    /\ ret.op = "open"
    /\ ret.kind = "Corruption"

\* The tables migration 0 creates and the rows it seeds.
BaselinePresent(s) ==
    /\ {"databases", "schemas", "items"} \subseteq DOMAIN s.schema
    /\ HasTable(s, "gid_alloc") \/ HasTable(s, "user_gid_alloc")
    /\ \E r \in s.rows["databases"] : r.id = 1 /\ r.name = "materialize"
    /\ {"mz_catalog", "pg_catalog"}
         \subseteq {r.name : r \in {x \in s.rows["schemas"] : x.database_id = None}}

\* C5: the committed store has either identity header zero and no table at
\* all, or the magic and the baseline of migration 0.
C5_MagicWithBaseline ==
    Ours =>
      \/ disk.application_id = 0 /\ DOMAIN disk.schema = {}
      \/ disk.application_id = APPLICATION_ID /\ BaselinePresent(disk)

\* The first open died between the PRAGMA and the end of migration 0: the
\* store is still fresh.
C5_Witness ==
    /\ pc = "closed"
    /\ ret.kind = "crash"
    /\ ret.at = "apply"
    /\ ret.i = 0
    /\ disk = EmptyStore

\* C6: as long as only open has written to the store, the committed store
\* at version j is the store that migrations 0..j yield when applied in one
\* go, however many opens it took and wherever they stopped.
C6_SplitEqualsOneGo ==
    (disk.application_id = APPLICATION_ID /\ history = <<>>)
      => WithoutSettings(disk) = Migrated(disk.user_version)

\* A store that a first open left at version 3 has been brought to version
\* 11 by a second one.
C6_Witness ==
    /\ LoopDone
    /\ frame.app_id = APPLICATION_ID
    /\ frame.version = 3
    /\ disk.user_version = 11
    /\ history = <<>>

----------------------------------------------------------------------------
(* C7..C10: the id allocator.                                              *)

Elements(seq) == {seq[n] : n \in DOMAIN seq}

\* C7 (as stated): no identifier is returned by two allocations of one
\* namespace, nor twice in one batch.
C7_NoIdReturnedTwice ==
    /\ \A m, n \in DOMAIN history :
         (m < n /\ history[m].id_type = history[n].id_type)
           => Elements(history[m].ids) \cap Elements(history[n].ids) = {}
    /\ \A n \in DOMAIN history :
         \A a, b \in DOMAIN history[n].ids :
           a # b => history[n].ids[a] # history[n].ids[b]

\* C8 (as stated): an allocation that returned, called with amount at
\* counter c, returned c, c+1, ..., c+amount-1 and left the counter at
\* c+amount; the first batch of a namespace starts at its seed; two
\* allocate_user_id calls in a row return consecutive ids.
C8_ReturnsContiguousBatch ==
    /\ \A n \in DOMAIN history :
         LET h == history[n]
         IN  h.returned =>
               /\ Len(h.ids) = h.amount
               /\ \A k \in DOMAIN h.ids : h.ids[k] = h.start + k - 1
    /\ pc = "alloc_return" =>
         AsU64(NextGid(disk, frame.id_type)) = frame.id + frame.amount
    /\ \A n \in DOMAIN history :
         (\A m \in 1 .. (n - 1) : history[m].id_type # history[n].id_type)
           => history[n].start = (IF history[n].id_type = "user"
                                  THEN USER_GID_SEED ELSE SYSTEM_GID_SEED)
    /\ \A n \in DOMAIN history :
         (/\ n > 1
          /\ history[n].id_type = "user" /\ history[n - 1].id_type = "user"
          /\ history[n].returned /\ history[n - 1].returned)
           => history[n].ids = <<history[n - 1].ids[1] + 1>>

\* C9: a step of an allocation other than its commit writes nothing (the
\* committed store and the record of issued ids stay as they are), whether
\* the call goes on, returns an error or dies; and the call goes on past
\* the check only when the counter it read is not i64::MAX.
C9_UncommittedAllocationWritesNothing ==
    [][ /\ (pc \in {"ready", "alloc_update", "alloc_commit"} /\ pc' # "alloc_return")
           => (disk' = disk /\ history' = history)
        /\ (pc = "ready" /\ pc' = "alloc_update")
           => NextGid(disk, frame'.id_type) # I64_MAX
        /\ (pc = "ready" /\ pc' = "ready" /\ ret'.kind = "IdExhaustion")
           => (conn' = conn /\ tx' = NoTx
               /\ \E t \in {"user", "system"} : NextGid(disk', t) = I64_MAX) ]_vars

\* allocate_system_ids has failed with IdExhaustion at a counter of i64::MAX.
C9_Witness ==
    /\ pc = "ready"
    /\ ret.kind = "IdExhaustion"
    /\ NextGid(disk, "system") = I64_MAX

\* C10 (as stated, for the amounts of at least 1): an allocation that
\* returned leaves the counter of its namespace strictly above the value it
\* read.
C10_CounterStrictlyIncreases ==
    [][ (pc = "alloc_return" /\ pc' = "ready" /\ frame.amount >= 1)
        => NextGid(disk', frame.id_type) > AsI64(frame.id) ]_vars

----------------------------------------------------------------------------
(* C11..C16: the settings open resolves.                                   *)

\* The experimental_mode row of the committed store: None, {"0"} or {"1"}.
StoredMode == IF HasTable(disk, "settings") THEN GetSetting(disk, "experimental_mode") ELSE None
\* The same after the step.
StoredModeNext == IF HasTable(disk', "settings") THEN GetSetting(disk', "experimental_mode") ELSE None

\* The step is open's call of set_or_get_experimental_mode coming back (and
\* not the death of the process at that point).
ModeResolved == pc = "experimental_mode" /\ pc' # pc /\ ret'.kind # "crash"

\* C11: when the store holds the setting and open is given the other value,
\* open fails, with ExperimentalModeRequired when true is stored and with
\* ExperimentalModeUnavailable when false is stored, returns no handle and
\* leaves the store as it is; and a successful first open with hint false
\* is one that leaves false stored (so that a reopen with hint true is such
\* a call).
C11_MismatchedHintFails ==
    [][ /\ (ModeResolved /\ StoredMode = {"1"} /\ frame.hint = Some(FALSE))
           => (pc' = "closed" /\ conn' = NoConn /\ disk' = disk
               /\ ret'.kind = "ExperimentalModeRequired")
        /\ (ModeResolved /\ StoredMode = {"0"} /\ frame.hint = Some(TRUE))
           => (pc' = "closed" /\ conn' = NoConn /\ disk' = disk
               /\ ret'.kind = "ExperimentalModeUnavailable")
        /\ (ModeResolved /\ StoredMode = None /\ frame.hint = Some(FALSE)
            /\ pc' = "cluster_id")
           => StoredModeNext = {"0"} ]_vars

\* A reopen with hint true of a store that holds false has failed.
C11_Witness ==
    /\ pc = "closed"
    /\ ret.kind = "ExperimentalModeUnavailable"
    /\ StoredMode = {"0"}

\* C12 (as stated): an open with hint false of a store without the setting
\* returns false and leaves the store without the setting.
C12_FalseHintStoresNothing ==
    [][ (ModeResolved /\ StoredMode = None /\ frame.hint = Some(FALSE))
        => /\ pc' = "cluster_id"
           /\ frame'.experimental_mode = FALSE
           /\ StoredModeNext = None ]_vars

\* C12 (amended): such an open returns false and stores the setting as
\* false (the text '0').
C12_FalseHintStoresFalse ==
    [][ (ModeResolved /\ StoredMode = None /\ frame.hint = Some(FALSE))
        => /\ pc' = "cluster_id"
           /\ frame'.experimental_mode = FALSE
           /\ StoredModeNext = {"0"} ]_vars

\* A first open with hint false has returned: the handle says false and
\* the store holds '0'.
C12_Witness ==
    /\ pc = "ready"
    /\ ret.op = "open"
    /\ ret.kind = "ok"
    /\ conn.experimental_mode = FALSE
    /\ StoredMode = {"0"}

\* C13: once the store holds experimental_mode as true (the text '1'), no
\* step (an open with any hint, a transaction and its calls, a settings
\* call, a panic, the death of the process) changes or removes it.
C13_StoredTrueStaysTrue ==
    [][ StoredMode = {"1"} => StoredModeNext = {"1"} ]_vars

\* A store that holds true has been written to through the repository and
\* then opened with hint false: the open was refused and true is still there.
C13_Witness ==
    /\ pc = "closed"
    /\ calls > 0
    /\ ret.op = "open"
    /\ ret.kind = "ExperimentalModeRequired"
    /\ StoredMode = {"1"}
    /\ GetSetting(disk, "catalog_content_version") # None

\* The store has been opened with success (open's last write, the
\* cluster_id, is there) and holds no experimental_mode of true.
OpenedWithoutMode ==
    /\ HasTable(disk, "settings")
    /\ GetSetting(disk, "cluster_id") # None
    /\ StoredMode # {"1"}

\* The handle of the state after the step reports experimental_mode.
ReportsModeNext == conn' # NoConn /\ conn'.experimental_mode

StoredClusterId == IF HasTable(disk, "settings") THEN GetSetting(disk, "cluster_id") ELSE None
\* The same after the step.
StoredClusterIdNext == IF HasTable(disk', "settings") THEN GetSetting(disk', "cluster_id") ELSE None
\* The step is open returning its handle.
OpenSucceeds == pc = "cluster_id" /\ pc' = "ready"

\* C16: a stored cluster_id is never changed or removed; the only step that
\* stores one is a successful open of a store that has none (no repository
\* or settings call writes it); and every successful open, first or later
\* and with any hint, returns a handle whose cluster_id is the stored one.
C16_ClusterIdWrittenOnce ==
    [][ /\ StoredClusterId # None => StoredClusterIdNext = StoredClusterId
        /\ StoredClusterIdNext # StoredClusterId => OpenSucceeds
        /\ OpenSucceeds => StoredClusterIdNext = {UuidToSql(conn'.cluster_id)} ]_vars

\* A store opened before, and written to through the repository, has been
\* opened again: the handle carries the id the store holds.
C16_Witness ==
    /\ pc = "ready"
    /\ calls > 0
    /\ ret.op = "open"
    /\ ret.kind = "ok"
    /\ StoredClusterId = {UuidToSql(conn.cluster_id)}

----------------------------------------------------------------------------
(* C17..C20: the committed rows of the repository.                         *)

\* C17 (as stated): in the committed store every schema row with a non-NULL
\* database_id names a database row that exists.
C17_SchemasReferToDatabases ==
    Dangling(disk, [table |-> "schemas", col |-> "database_id", parent |-> "databases"]) = {}

\* C18 (as stated): in the committed store every item row names a schema row
\* that exists.
C18_ItemsReferToSchemas ==
    \A r \in disk.rows["items"] :
        \E p \in disk.rows["schemas"] : r.schema_id = Some(p.id)

\* C19 (as stated): in the committed store every row of
\* compute_introspection_source_indexes has the id of a compute instance
\* row that exists.
C19_IntrospectionRefersToInstance ==
    \A r \in disk.rows["compute_introspection_source_indexes"] :
        \E p \in disk.rows["compute_instances"] : r.compute_id = p.id

\* The rows of a table agree on the columns `key` only when they are one row.
UniqueOn(rows, key) ==
    Cardinality({[c \in key |-> r[c]] : r \in rows}) = Cardinality(rows)

\* C20: in the committed store no two databases, no two roles and no two
\* compute instances have one name; no two schemas have one database (or
\* none) and one name; no two items have one schema and one name; no two
\* introspection rows have one (compute_id, name); no two system mappings
\* have one (schema_name, object_name).
C20_NamesUniqueInScope ==
    /\ UniqueOn(disk.rows["databases"], {"name"})
    /\ UniqueOn(disk.rows["roles"], {"name"})
    /\ UniqueOn(disk.rows["compute_instances"], {"name"})
    /\ UniqueOn(disk.rows["schemas"], {"database_id", "name"})
    /\ UniqueOn(disk.rows["items"], {"schema_id", "name"})
    /\ UniqueOn(disk.rows["compute_introspection_source_indexes"], {"compute_id", "name"})
    /\ UniqueOn(disk.rows["system_gid_mapping"], {"schema_name", "object_name"})

\* A transaction has committed a second schema named public, in another
\* database than the first: the name is taken once in each scope.
C20_Witness ==
    /\ pc = "ready"
    /\ ret.op = "commit"
    /\ \E a, b \in disk.rows["schemas"] :
           a.name = "public" /\ b.name = "public" /\ a.database_id # b.database_id
    /\ \E a, b \in disk.rows["databases"] : a # b

----------------------------------------------------------------------------
(* C21..C23: what the facade reports for names taken and rows missing.     *)

\* The step is a call rejected with the variant `kind` carrying `name` that
\* wrote nothing: the working copy of the transaction, every table of it,
\* and the committed store are as before.
RejectedAs(kind, name) ==
    /\ ret'.kind = kind
    /\ ret'.name = name
    /\ tx' = tx
    /\ disk' = disk

\* C21: an insert of a database, a schema (of one database), a role, a
\* compute instance or an item (of one schema) under a name that is there
\* fails with DatabaseAlreadyExists, SchemaAlreadyExists, RoleAlreadyExists,
\* ClusterAlreadyExists or ItemAlreadyExists carrying the name, and no table
\* changes.
C21_DuplicateNameRejected ==
    [][ /\ \A database_name \in DatabaseNames :
              (/\ insert_database(database_name)
               /\ \E row \in tx.rows["databases"] : row.name = database_name)
              => RejectedAs("DatabaseAlreadyExists", database_name)
        /\ \A database_id \in DatabaseIds, schema_name \in SchemaNames :
              (/\ insert_schema(database_id, schema_name)
               /\ \E row \in tx.rows["schemas"] :
                      row.database_id = Some(database_id) /\ row.name = schema_name)
              => RejectedAs("SchemaAlreadyExists", schema_name)
        /\ \A role_name \in RoleNames :
              (/\ insert_role(role_name)
               /\ \E row \in tx.rows["roles"] : row.name = role_name)
              => RejectedAs("RoleAlreadyExists", role_name)
        /\ \A cluster_name \in ComputeNames, introspection_sources \in IntrospectionSources :
              (/\ insert_compute_instance(cluster_name, introspection_sources)
               /\ \E row \in tx.rows["compute_instances"] : row.name = cluster_name)
              => RejectedAs("ClusterAlreadyExists", cluster_name)
        /\ \A id \in ItemIds, schema_id \in SchemaIds, item_name \in ItemNames :
              (/\ insert_item(id, schema_id, item_name)
               /\ \E row \in tx.rows["items"] :
                      row.schema_id = Some(schema_id) /\ row.name = item_name)
              => RejectedAs("ItemAlreadyExists", item_name) ]_vars

\* An item has been inserted and a second insert under its name into its
\* schema was rejected with the name.
C21_Witness ==
    /\ pc = "in_tx"
    /\ ret.op = "insert_item"
    /\ ret.kind = "ItemAlreadyExists"
    /\ \E row \in tx.rows["items"] : row.name = ret.name

\* The outcome of a remove step whose WHERE clause matches `victims` in
\* table t: with no row matched the variant `unknown` and no change; with
\* the row there, Ok and the table without that one row, every other table
\* as before; where `refused`, an error of the store and no change.
RemoveOutcome(t, victims, unknown, refused) ==
    /\ disk' = disk
    /\ IF victims = {} THEN ret'.kind = unknown /\ tx' = tx
       ELSE IF refused THEN ret'.kind = "StoreError" /\ tx' = tx
       ELSE /\ ret'.kind = "ok"
            /\ Cardinality(victims) = 1
            /\ tx' = [tx EXCEPT !.rows[t] = @ \ victims]

\* The remove steps, each with the rows it targets; database_refused(d) and
\* schema_refused(s) say when the removal of database d, of schema s, is
\* refused.
RemoveOutcomes(database_refused(_), schema_refused(_)) ==
    /\ \A id \in DatabaseIds :
          remove_database(id)
          => RemoveOutcome("databases", {r \in tx.rows["databases"] : r.id = id},
                           "UnknownDatabase", database_refused(id))
    /\ \A database_id \in DatabaseIds, schema_id \in SchemaIds :
          remove_schema(database_id, schema_id)
          => RemoveOutcome("schemas",
                           {r \in tx.rows["schemas"] :
                               r.database_id = Some(database_id) /\ r.id = schema_id},
                           "UnknownSchema", schema_refused(schema_id))
    /\ \A name \in RoleNames :
          remove_role(name)
          => RemoveOutcome("roles", {r \in tx.rows["roles"] : r.name = name},
                           "UnknownRole", FALSE)
    /\ \A name \in ComputeNames :
          remove_compute_instance(name)
          => RemoveOutcome("compute_instances",
                           {r \in tx.rows["compute_instances"] : r.name = name},
                           "UnknownComputeInstance", FALSE)
    /\ \A id \in ItemIds :
          remove_item(id)
          => RemoveOutcome("items", {r \in tx.rows["items"] : r.gid = GlobalIdToSql(id)},
                           "UnknownItem", FALSE)

NeverRefused(id) == FALSE
\* The connection enforces foreign keys and a schema names the database.
DatabaseInUse(id) ==
    conn.foreign_keys /\ \E r \in tx.rows["schemas"] : r.database_id = Some(id)
\* The connection enforces foreign keys and an item names the schema.
SchemaInUse(id) ==
    conn.foreign_keys /\ \E r \in tx.rows["items"] : r.schema_id = Some(id)

\* C22 (as stated): a remove_* whose target is absent fails with its Unknown
\* variant and changes no table; one whose target is there deletes exactly
\* that row.
C22_RemovesExactlyTheTarget == [][ RemoveOutcomes(NeverRefused, NeverRefused) ]_vars

\* C22 (amended): the same, except that on a connection that enforces
\* foreign keys remove_database of a database some schema names, and
\* remove_schema of a schema some item names, fail with an error of the
\* store and change no table.
C22_RemovesTheTargetOrRefuses == [][ RemoveOutcomes(DatabaseInUse, SchemaInUse) ]_vars

\* remove_schema of a schema that holds an item has been refused.
C22_Witness ==
    /\ pc = "in_tx"
    /\ ret.op = "remove_schema"
    /\ ret.kind = "StoreError"
    /\ \E r \in tx.rows["items"] : \E p \in tx.rows["schemas"] : r.schema_id = Some(p.id)

\* The outcome of an update step whose WHERE clause matches no row: the
\* variant `unknown`, and no row of any table changes.
NothingToUpdate(unknown) ==
    /\ ret'.kind = unknown
    /\ tx' = tx
    /\ disk' = disk

\* C23 (as stated): update_item for a gid no item has fails with
\* UnknownItem, update_compute_instance_config for an id no compute
\* instance has fails with UnknownComputeInstance, and neither changes a
\* row.
C23_UpdateOfMissingRowFails ==
    [][ /\ \A id \in ItemIds, item_name \in ItemNames :
              (/\ update_item(id, item_name)
               /\ ~\E r \in tx.rows["items"] : r.gid = GlobalIdToSql(id))
              => NothingToUpdate("UnknownItem")
        /\ \A id \in ComputeIds, config \in ComputeConfigs :
              (/\ update_compute_instance_config(id, config)
               /\ ~\E r \in tx.rows["compute_instances"] : r.id = id)
              => NothingToUpdate("UnknownComputeInstance") ]_vars

----------------------------------------------------------------------------
(* C24, C25: what load_items returns.                                      *)

\* C24 (as stated): in a transaction, every row of items (inserted and not
\* removed), whatever schema it names, is in what load_items returns, with
\* its gid, its name and its definition.
C24_LoadItemsReturnsEveryItem ==
    pc = "in_tx" =>
        \A row \in tx.rows["items"], items \in load_items(tx) :
            \E n \in DOMAIN items :
                /\ items[n].id = GlobalIdFromSql(row.gid)
                /\ items[n].item = row.name
                /\ items[n].definition = row.definition

----------------------------------------------------------------------------
(* C26: the facade's writes reach the store through commit only.           *)

\* C26: while a facade exists, no step but commit changes the committed
\* store: not a call of the facade, whether it succeeds or fails, not the
\* drop of the facade, not a panic or the death of the process; so what a
\* later transaction or a later open finds is what was there when the
\* facade was created.  commit makes the committed store the facade's
\* working copy, all of its writes at once.
C26_CommitIsTheOnlyWayToPersist ==
    [][ /\ (pc = "in_tx" /\ ~commit) => disk' = disk
        /\ transaction => (disk' = disk /\ tx' = disk)
        /\ commit => disk' = tx ]_vars

\* A schema and an item in it have been inserted and a commit has
\* returned: the store holds both.
C26_Witness ==
    /\ pc = "ready"
    /\ ret.op = "commit"
    /\ calls = 2
    /\ \E p \in disk.rows["schemas"], i \in disk.rows["items"] :
           p.id = 6 /\ i.schema_id = Some(p.id)

----------------------------------------------------------------------------
(* C27: the loads against a reference model of sets.                       *)

\* What the load operations return from a store (from the working copy of a
\* transaction: once it is committed), as sets of rows (of
\* load_items, the rows of the sequences it can return).
Loaded(s) ==
    [databases |-> load_databases(s),
     schemas |-> load_schemas(s),
     roles |-> load_roles(s),
     compute_instances |-> load_compute_instances(s),
     items |-> UNION {{[id |-> items[n].id, schema |-> items[n].schema,
                        item |-> items[n].item, definition |-> items[n].definition] :
                           n \in DOMAIN items} : items \in load_items(s)}]

\* The reference model: the step adds to the set `kind` one row that was not
\* in it and that has the fields of `row`, and leaves the other sets alone.
Adds(kind, row) ==
    /\ ret'.kind = "ok"
       => \E new \in Loaded(tx')[kind] \ Loaded(tx)[kind] :
              /\ \A f \in DOMAIN row : new[f] = row[f]
              /\ Loaded(tx') = [Loaded(tx) EXCEPT ![kind] = @ \cup {new}]
\* The step takes from the set `kind` the one row with the fields of `row`.
Takes(kind, row) ==
    /\ ret'.kind = "ok"
       => \E old \in Loaded(tx)[kind] :
              /\ \A f \in DOMAIN row : old[f] = row[f]
              /\ Loaded(tx') = [Loaded(tx) EXCEPT ![kind] = @ \ {old}]

\* C27 (as stated): every successful insert and remove changes what the
\* loads return as the same operation changes the reference sets, commit
\* makes the loads of the store those of the transaction, and no other step
\* (close, reopen) changes what the loads of the store return.
C27_LoadsFollowTheSetModel ==
    [][ /\ \A database_name \in DatabaseNames :
              insert_database(database_name) => Adds("databases", [name |-> database_name])
        /\ \A database_id \in DatabaseIds, schema_name \in SchemaNames :
              insert_schema(database_id, schema_name)
              => Adds("schemas", [name |-> schema_name, database_id |-> Some(database_id)])
        /\ \A role_name \in RoleNames :
              insert_role(role_name) => Adds("roles", [name |-> role_name])
        /\ \A cluster_name \in ComputeNames, introspection_sources \in IntrospectionSources :
              insert_compute_instance(cluster_name, introspection_sources)
              => Adds("compute_instances", [name |-> cluster_name, config |-> "Local"])
        /\ \A id \in ItemIds, schema_id \in SchemaIds, item_name \in ItemNames :
              insert_item(id, schema_id, item_name)
              => Adds("items", [id |-> id, schema |-> schema_id, item |-> item_name,
                                definition |-> "definition"])
        /\ \A id \in DatabaseIds :
              remove_database(id) => Takes("databases", [id |-> id])
        /\ \A database_id \in DatabaseIds, schema_id \in SchemaIds :
              remove_schema(database_id, schema_id)
              => Takes("schemas", [id |-> schema_id, database_id |-> Some(database_id)])
        /\ \A name \in RoleNames :
              remove_role(name) => Takes("roles", [name |-> name])
        /\ \A name \in ComputeNames :
              remove_compute_instance(name) => Takes("compute_instances", [name |-> name])
        /\ \A id \in ItemIds :
              remove_item(id) => Takes("items", [id |-> id])
        /\ commit => Loaded(disk') = Loaded(tx)
        /\ ~commit => Loaded(disk') = Loaded(disk) ]_vars

----------------------------------------------------------------------------
(* C28: what the first open of a fresh store leaves.                       *)

\* The store as the twelve migrations seed it.
Seeded(s) ==
    /\ s.user_version = 11
    /\ load_databases(s) = {[id |-> 1, name |-> "materialize"]}
    /\ Cardinality(s.rows["schemas"]) = 5
    /\ {[name |-> r.name, database_id |-> r.database_id] : r \in load_schemas(s)}
         = {[name |-> "mz_catalog", database_id |-> None],
            [name |-> "pg_catalog", database_id |-> None],
            [name |-> "public", database_id |-> Some(1)],
            [name |-> "mz_internal", database_id |-> None],
            [name |-> "information_schema", database_id |-> None]}
    /\ load_roles(s) = {[id |-> 1, name |-> "materialize"]}
    /\ s.rows["compute_instances"] = {[id |-> 1, name |-> "default", config |-> None]}
    /\ load_compute_instances(s) = {[id |-> 1, name |-> "default", config |-> "Local"]}
    /\ {r.next_gid : r \in s.rows["user_gid_alloc"]} = {1}
    /\ {r.next_gid : r \in s.rows["system_gid_alloc"]} = {5044}
    /\ s.rows["system_gid_mapping"] = {SystemGidSeedRows[n] : n \in DOMAIN SystemGidSeedRows}
    /\ \A r \in s.rows["system_gid_mapping"] : r.fingerprint = 0

----------------------------------------------------------------------------
(* C29: set_system_gids is an upsert.                                      *)

\* The key of a row of the system mapping.
MappingKey(r) == <<r.schema_name, r.object_name>>
\* The last mapping of the list with key k.
LastMapping(mappings, k) ==
    mappings[CHOOSE n \in DOMAIN mappings :
                 /\ MappingKey(mappings[n]) = k
                 /\ \A m \in DOMAIN mappings : MappingKey(mappings[m]) = k => m <= n]

\* C29: a set_system_gids that returns Ok leaves, of what load_system_gids
\* returned before, the rows of the keys that the list does not name, and
\* for each key of the list one row with the id and the fingerprint the
\* list gives it (so a key already present keeps its one row, a new key adds
\* one row); no other table changes; and the same list applied again would
\* change nothing.
C29_SetSystemGidsIsAnUpsert ==
    [][ \A mappings \in SystemGidMappings :
          (set_system_gids(mappings) /\ ret'.kind = "ok")
          => LET before == load_system_gids(disk)
                 after == load_system_gids(disk')
                 keys == {MappingKey(mappings[n]) : n \in DOMAIN mappings}
             IN  /\ after = {r \in before : MappingKey(r) \notin keys}
                            \cup {LastMapping(mappings, k) : k \in keys}
                 /\ Cardinality(disk'.rows["system_gid_mapping"])
                      = Cardinality(disk.rows["system_gid_mapping"])
                        + Cardinality(keys \ {MappingKey(r) : r \in before})
                 /\ disk = [disk' EXCEPT !.rows["system_gid_mapping"] =
                                            disk.rows["system_gid_mapping"]]
                 /\ UpsertSystemGids(disk', mappings).db = disk' ]_vars

\* Both cases have happened: the seeded key pg_catalog.bool carries the new
\* id and fingerprint, the new key mz_catalog.mz_new its last fingerprint, and
\* the table has one row more than the seed.
C29_Witness ==
    /\ ret.op = "set_system_gids" /\ ret.kind = "ok"
    /\ [schema_name |-> "pg_catalog", object_name |-> "bool",
        id |-> System(1), fingerprint |-> 1] \in load_system_gids(disk)
    /\ [schema_name |-> "mz_catalog", object_name |-> "mz_new",
        id |-> System(1), fingerprint |-> U64_MOD - 1] \in load_system_gids(disk)
    /\ Cardinality(disk.rows["system_gid_mapping"]) = Len(SystemGidSeedRows) + 1

----------------------------------------------------------------------------
(* C30: a non-System id given to a system-only call.                       *)

\* The list carries an id that is not GlobalId::System.
NonSystemIn(list, field) == \E n \in DOMAIN list : list[n][field].tag # "System"
\* The call ended by panic and the store is as it was before the call.
PanickedWithNothingKept == ret'.kind = "panic" /\ disk' = disk

\* C30 (as stated): set_system_gids, set_introspection_source_index_gids
\* and insert_compute_instance given a list with a non-System id end by
\* panic, and the store keeps nothing of the list.
C30_NonSystemIdPanics ==
    [][ /\ \A mappings \in SystemGidMappings :
              (set_system_gids(mappings) /\ NonSystemIn(mappings, "id"))
              => PanickedWithNothingKept
        /\ \A mappings \in IntrospectionMappings :
              (set_introspection_source_index_gids(mappings) /\ NonSystemIn(mappings, "index_id"))
              => PanickedWithNothingKept
        /\ \A cluster_name \in ComputeNames, introspection_sources \in IntrospectionSources :
              (insert_compute_instance(cluster_name, introspection_sources)
                 /\ NonSystemIn(introspection_sources, "index_id"))
              => PanickedWithNothingKept ]_vars

----------------------------------------------------------------------------
(* C31: insert_compute_instance as one unit.                               *)

\* C31 (as stated): an insert_compute_instance that returns Ok leaves in the
\* transaction one new instance row of the given name and, under its id, a
\* row for each introspection source; one that returns an error leaves the
\* instance rows and the introspection rows of the transaction as they
\* were before the call.
C31_ComputeInstanceInsertedAsOneUnit ==
    [][ \A cluster_name \in ComputeNames, introspection_sources \in IntrospectionSources :
          insert_compute_instance(cluster_name, introspection_sources)
          => IF ret'.kind = "ok"
             THEN \E c \in tx'.rows["compute_instances"] \ tx.rows["compute_instances"] :
                    /\ c.name = cluster_name
                    /\ \A n \in DOMAIN introspection_sources :
                          [compute_id |-> c.id, name |-> introspection_sources[n].name,
                           index_id |-> AsI64(introspection_sources[n].index_id.id)]
                            \in tx'.rows["compute_introspection_source_indexes"]
             ELSE ret'.kind = "panic"
                  \/ /\ tx'.rows["compute_instances"] = tx.rows["compute_instances"]
                     /\ tx'.rows["compute_introspection_source_indexes"]
                          = tx.rows["compute_introspection_source_indexes"] ]_vars

----------------------------------------------------------------------------
(* C32: the catalog content version.                                       *)

\* The stored catalog_content_version, before and after the step.
StoredVersion == GetSetting(disk, "catalog_content_version")
StoredVersionNext == GetSetting(disk', "catalog_content_version")
\* The settings under other names.
OtherSettings(s) == {r \in s.rows["settings"] : r.name # "catalog_content_version"}
\* The store but for its settings table.
BesidesSettings(s) == [s EXCEPT !.rows["settings"] = {}]
\* An integer literal: one or more decimal digits.
IntegerLiteral(v) == Chars(v) # <<>> /\ \A n \in DOMAIN Chars(v) : IsDigit(Chars(v)[n])

\* What both statements of C32 share: set leaves exactly one row of the
\* name, holding the text given, and get writes nothing; neither changes
\* another setting or another table; get returns "new" when nothing is
\* stored and "pre-v0.8.4" for stored digits that fit a u32.
SetAndGetAsSpecified ==
    /\ \A new_version \in StoredVersions :
          (set_catalog_content_version(new_version) /\ ret'.kind = "ok")
          => /\ {r \in disk'.rows["settings"] : r.name = "catalog_content_version"}
                  = {[name |-> "catalog_content_version", value |-> new_version]}
             /\ OtherSettings(disk') = OtherSettings(disk)
             /\ BesidesSettings(disk') = BesidesSettings(disk)
    /\ get_catalog_content_version
       => /\ disk' = disk
          /\ StoredVersion = None => ret'.value = "new"
          /\ StoredVersion = {"42"} => ret'.value = "pre-v0.8.4"

\* C32 (as stated): the above, and get returns the stored text whenever it
\* is not an integer literal.
C32_GetReturnsWhatIsNotAnInteger ==
    [][ /\ SetAndGetAsSpecified
        /\ get_catalog_content_version
           => \A v \in StoredVersion : ~IntegerLiteral(v) => ret'.value = v ]_vars

\* C32 (amended): the above, and get returns "pre-v0.8.4" for every stored
\* text that parses as a u32, digits after a plus sign included, and the
\* stored text in every other case, digits above u32::MAX included.
C32_GetReturnsWhatDoesNotParse ==
    [][ /\ SetAndGetAsSpecified
        /\ get_catalog_content_version
           => \A v \in StoredVersion :
                 ret'.value = (IF v \in {"42", "+42"} THEN "pre-v0.8.4" ELSE v) ]_vars

\* A version that is not made of digits alone was stored, and get has
\* answered with the name of the old releases.
C32_Witness ==
    /\ ret.op = "get_catalog_content_version"
    /\ ret.value = "pre-v0.8.4"
    /\ StoredVersion = {"+42"}

----------------------------------------------------------------------------
(* C33: the codec round-trips.                                             *)

\* C33: whatever value was stored through SqlVal, reading the stored blob
\* succeeds and returns that value.
C33_DecodeOfEncodeIsTheValue ==
    pc = "read" => (ret.kind = "ok" /\ ret.value = frame.value)

\* A user id above i64::MAX has been stored and read back.
C33_Witness ==
    /\ pc = "read"
    /\ frame.value = User(U64_MOD - 1)
    /\ ret.kind = "ok"
    /\ ret.value = User(U64_MOD - 1)

----------------------------------------------------------------------------
(* C34: the range of the allocator.                                        *)

\* C34 (as stated): the stored counter of each namespace, read as an i64,
\* is at least 1 and at most i64::MAX, and every id an allocation returned
\* is below i64::MAX.
C34_AllocatorStaysInPositiveI64 ==
    /\ \A id_type \in {"user", "system"} :
          HasTable(disk, GidAllocTable(id_type))
          => (1 <= NextGid(disk, id_type) /\ NextGid(disk, id_type) <= I64_MAX)
    /\ \A n \in DOMAIN history :
          \A k \in DOMAIN history[n].ids : history[n].ids[k] < I64_MAX

----------------------------------------------------------------------------
(* C35: what ItemAlreadyExists names.                                      *)

\* C35 (as stated): an insert_item that fails with ItemAlreadyExists(n)
\* carries the name it was given, and the transaction already holds an item
\* of that name in the target schema.
C35_ItemAlreadyExistsNamesADuplicate ==
    [][ \A id \in ItemIds, schema_id \in SchemaIds, item_name \in ItemNames :
          (insert_item(id, schema_id, item_name) /\ ret'.kind = "ItemAlreadyExists")
          => /\ ret'.name = item_name
             /\ \E i \in tx.rows["items"] :
                   i.schema_id = Some(schema_id) /\ i.name = item_name ]_vars

----------------------------------------------------------------------------
\* The update_many calls the stash has taken, in order.
Forwarded == SelectSeq(stash, LAMBDA c : c.op = "update_many")

\* C36: over the lifetime of a store migration 10 forwards the bindings of
\* each source to the stash exactly once: whatever opens failed or were
\* killed between the stash writes and the commit of the migration, the
\* stash never takes the bindings of a source a second time.
C36_BindingsForwardedOnce ==
    \A m, n \in DOMAIN Forwarded :
        Forwarded[m].collection = Forwarded[n].collection => m = n

\* The step on which open returns ExperimentalModeRequired or
\* ExperimentalModeUnavailable.
FailsOnExperimentalMode ==
    /\ pc = "experimental_mode"
    /\ ret'.op = "open"
    /\ ret'.kind \in {"ExperimentalModeRequired", "ExperimentalModeUnavailable"}

\* C37: an open that fails with ExperimentalModeRequired or
\* ExperimentalModeUnavailable leaves the store as it found it, also when
\* migrations were pending: the failing call writes nothing, no migration
\* was committed by this open, and the header slots are the ones it found.
C37_FailedOpenLeavesTheStore ==
    [][FailsOnExperimentalMode =>
          /\ disk' = disk
          /\ frame.applied = <<>>
          /\ disk'.user_version = frame.version
          /\ disk'.application_id = frame.app_id]_vars

----------------------------------------------------------------------------
\* The ports of the tasks that drop_service would abort: those of the
\* handles in a supervisors map.
Registered ==
    UNION {Range(h) : h \in {x \in DOMAIN tasks :
        \E ns \in Namespaces : \E id \in DOMAIN supervisors[ns].map :
            x \in Range(supervisors[ns].map[id])}}

\* The ports of a call of ensure_service that is still running: those of
\* the process in the making and of the tasks it has spawned so far.
InTheMaking ==
    UNION {Range(threads[ns].ports) \cup UNION {Range(h) : h \in Range(threads[ns].handles)} :
        ns \in {n \in Namespaces : threads[n].at # "idle"}}

\* The ports of the aborted tasks whose guard will free them.
BeingFreed == UNION {Range(h) : h \in {x \in DOMAIN tasks : tasks[x] = "aborted"}}

\* C38: no allocated port is ever lost: every port taken from the shared
\* allocator is held by a supervisor task registered in a supervisors map
\* (or by the call that is about to register it, or by an aborted task
\* that is about to free it), also after ensure_service has failed with
\* port exhaustion part-way through a service of several processes.
C38_NoPortIsLost ==
    port_allocator \subseteq (Registered \cup InTheMaking \cup BeingFreed)

=============================================================================
